---- MODULE Spec2Model ----
(***************************************************************************)
(* Model of the godo JSON API: the todo resource handlers with their       *)
(* optimistic-concurrency store (cmd/api/todos_handlers.go,                *)
(* cmd/api/batch_handlers.go, internal/data TodoModel) and the user        *)
(* lifecycle handlers (cmd/api/users_handlers.go).                         *)
(*                                                                         *)
(* Every request is served by its own goroutine.  A handler is a sequence  *)
(* of store statements; each statement is atomic in the database, and      *)
(* other requests may run between two statements of one handler.  A slot   *)
(* of req holds one request from its first statement to its response, and  *)
(* resp is the response written last.                                      *)
(***************************************************************************)
EXTENDS Integers, Sequences, FiniteSets, TLC

\* ---------------------------------------------------------------- bounds
NumProcs == 2        \* requests served concurrently
MaxRequests == 3     \* requests started in one behaviour
MaxTodos == 2        \* rows the todos id sequence hands out
NumUsers == 2        \* authenticated identities sending todo requests
MaxBatch == 2        \* ids in one batch delete body
MaxUserRequests == 4 \* user lifecycle requests started in one behaviour
MaxUsers == 2        \* rows the users id sequence hands out
MaxTokens == 2       \* tokens generated in one behaviour
MaxChainRequests == 2 \* requests sent through the middleware chain
MaxLimiterRequests == 3 \* requests arriving at the rate limiter
MaxTime == 5         \* minutes the clock runs for
MaxInflight == 2     \* requests in flight while the server shuts down
MaxTasks == 2        \* background tasks tracked at one time
MaxRegistrations == 2 \* registerUser requests that reach app.background
NumWorkers == 2      \* goroutines serving requests at rateLimit

Procs == 1..NumProcs
UserIds == 1..NumUsers
TodoIds == 1..MaxTodos

\* Values of the text field a body can carry; "" fails ValidateTodo.
Texts == {"", "a"}

\* The id strings a client can put in a URL or in a batch body.
IdStrings == {"1", "2", "0", "bad"}

VARIABLES
  todos,        \* the todos table: id -> row, for the rows that exist
  nextTodoId,   \* the bigserial sequence of todos.id
  req,          \* slot -> the request in flight in it, or Idle
  resp,         \* the request answered last, with its response
  nreq,         \* number of requests started so far
  updated,      \* id -> the versions read by the updateTodo requests
                \* answered 200, in the order of their responses
  users,        \* the users table: id -> row
  nextUserId,   \* the bigserial sequence of users.id
  tokens,       \* the tokens table
  nextToken,    \* the number of the next plaintext the generator returns
  permissions,  \* the users_permissions table: <<user id, code>> pairs
  issued,       \* every token row ever inserted
  redeemed,     \* the plaintexts that activateUser has answered 202 for
  voided,       \* the activation plaintexts that had been issued to a
                \* user when an activateUser request for the user was
                \* answered 202
  accepted,     \* user id -> number of activateUser requests answered 202
  cfg,          \* the configuration the server was started with
  now,          \* the clock, in minutes since the server started
  conn,         \* the request passing the middleware chain
  nconn,        \* number of requests the chain has received
  clients,      \* rateLimit's map: client IP -> its bucket
  passed,       \* client IP -> minute -> number of requests rateLimit
                \* has passed on to the next handler in that minute
  currentClients, \* the gauge rate_limit_current_clients
  swept,        \* the minute in which the cleanup goroutine last scanned
  mu,           \* rateLimit's mutex: its holder, and the positions of
                \* the serving goroutines and of the cleanup goroutine
  srv,          \* serve: its position, the position of its signal
                \* goroutine, the connections and the WaitGroup
  bg,           \* app.background: the counter of app.WG and the tasks
  reg,          \* registerUser from app.background on: its position, its
                \* variable err and the responses it has written
  cx,           \* contextualizeRequest around authenticate: the request
                \* each of them holds, and the log
  loaded        \* LoadConfig: the arguments and the environment it ran
                \* with and the Config it returned

todoVars == <<todos, nextTodoId, updated>>
userVars == <<users, nextUserId, tokens, nextToken, permissions, issued,
              redeemed, voided, accepted>>
sweepVars == <<currentClients, swept>>
mutexVars == <<mu>>
chainVars == <<cfg, now, conn, nconn, clients, passed, sweepVars, mutexVars>>
procVars == <<srv, loaded, bg, reg, cx>>
vars == <<todos, nextTodoId, req, resp, nreq, updated, users, nextUserId,
          tokens, nextToken, permissions, issued, redeemed, voided, accepted,
          cfg, now, conn, nconn, clients, passed, srv, loaded, currentClients, swept, mu, bg, reg, cx>>

\* ------------------------------------------------------------ data model

\* strconv.ParseInt(s, 10, 64) on the id strings of the model.
ParseInt(s) ==
  CASE s = "1" -> [err |-> FALSE, val |-> 1]
    [] s = "2" -> [err |-> FALSE, val |-> 2]
    [] s = "3" -> [err |-> FALSE, val |-> 3]
    [] s = "0" -> [err |-> FALSE, val |-> 0]
    [] OTHER   -> [err |-> TRUE,  val |-> 0]

\* readIdParam: the :id parameter must parse to a positive integer.
readIdParam(s) ==
  LET r == ParseInt(s)
  IN  IF r.err \/ r.val < 1 THEN [err |-> TRUE, val |-> 0] ELSE r

\* The zero value of data.Todo, with the Archived field the handlers set.
ZeroTodo ==
  [id |-> 0, user_id |-> 0, text |-> "", completed |-> FALSE,
   archived |-> FALSE, version |-> 0]

\* ValidateTodo: the text must be provided (the other checks bound lengths
\* the model's values never reach).
ValidateTodo(t) == t.text # ""

\* TodoModel.Insert: INSERT INTO todos (text, user_id, contexts, projects,
\* priority, completed) ... RETURNING id, created_at, version.  The id
\* comes from the sequence, the version from the column default.  The
\* archived field is not among the columns: a row read back has the zero
\* value there, the struct handed in keeps its own.
TodoModelInsert(store, seq, t) ==
  LET row == [t EXCEPT !.id = seq, !.version = 1, !.archived = FALSE]
  IN  [store |-> [i \in DOMAIN store \cup {seq} |->
                    IF i = seq THEN row ELSE store[i]],
       todo  |-> [t EXCEPT !.id = seq, !.version = 1]]

\* GetTodoIfOwned with WHERE id = $1 alone.
GetTodoIfOwned_AnyOwner(store, id, userID) ==
  IF id < 1 THEN [err |-> "ErrRecordNotFound", todo |-> ZeroTodo]
  ELSE IF id \in DOMAIN store
       THEN [err |-> "nil", todo |-> store[id]]
       ELSE [err |-> "ErrRecordNotFound", todo |-> ZeroTodo]

\* TodoModel.GetTodoIfOwned: SELECT ... WHERE id = $1 AND user_id = $2.
GetTodoIfOwned(store, id, userID) ==
  IF id < 1 THEN [err |-> "ErrRecordNotFound", todo |-> ZeroTodo]
  ELSE IF id \in DOMAIN store /\ store[id].user_id = userID
       THEN [err |-> "nil", todo |-> store[id]]
       ELSE [err |-> "ErrRecordNotFound", todo |-> ZeroTodo]

\* Filters.SortSafelist as listTodos sets it.
SortSafelist == {"id", "text", "-id", "-text"}

\* Filters.sortColumn: strings.Trim(f.Sort, "-") for a key of the
\* safelist, a panic for any other key.
sortColumn(f) ==
  IF f.Sort \in SortSafelist
  THEN [panics |-> FALSE,
        column |-> IF f.Sort \in {"id", "-id"} THEN "id" ELSE "text"]
  ELSE [panics |-> TRUE, column |-> ""]

\* Filters.sortDirection: strings.HasPrefix(f.Sort, "-").
sortDirection(f) ==
  IF f.Sort \in {"-id", "-text", "-name"} THEN "DESC" ELSE "ASC"

\* Filters.limit and Filters.offset.
limit(f) == f.PageSize
offset(f) == (f.Page - 1) * f.PageSize

\* The order of the text values of the model under ORDER BY text.
TextRank(x) == IF x = "" THEN 0 ELSE 1

\* ORDER BY column direction, id ASC: the row a comes before the row b.
OrderedBefore(a, b, column, direction) ==
  LET ka == IF column = "id" THEN a.id ELSE TextRank(a.text)
      kb == IF column = "id" THEN b.id ELSE TextRank(b.text)
  IN  IF ka # kb
      THEN IF direction = "ASC" THEN ka < kb ELSE ka > kb
      ELSE a.id < b.id

\* TodoModel.GetAll: SELECT ... WHERE text ILIKE ... AND user_id = $2
\* ORDER BY sortColumn() sortDirection(), id ASC LIMIT $3 OFFSET $4 (the
\* text filter with the empty default matches every row).  sortColumn
\* panics while the query string is built; the database rejects a
\* negative LIMIT or OFFSET.
TodoModelGetAll(store, userID, f) ==
  LET col  == sortColumn(f)
      rows == {store[i] : i \in {j \in DOMAIN store : store[j].user_id = userID}}
      rank(a) == Cardinality({b \in rows :
                   OrderedBefore(b, a, col.column, sortDirection(f))})
  IN  IF col.panics
      THEN [panics |-> TRUE, queried |-> FALSE, err |-> "nil", todos |-> {}]
      ELSE IF limit(f) < 0 \/ offset(f) < 0
      THEN [panics |-> FALSE, queried |-> TRUE, err |-> "db", todos |-> {}]
      ELSE [panics |-> FALSE, queried |-> TRUE, err |-> "nil",
            todos |-> {a \in rows : /\ rank(a) >= offset(f)
                                    /\ rank(a) < offset(f) + limit(f)}]

\* Update with WHERE id = $6 AND version >= $7.
TodoModelUpdate_VersionAtLeast(store, t) ==
  IF t.id \in DOMAIN store /\ store[t.id].version >= t.version
  THEN LET row == [store[t.id] EXCEPT !.text = t.text,
                                      !.completed = t.completed,
                                      !.version = @ + 1]
       IN  [err |-> "nil",
            store |-> [store EXCEPT ![t.id] = row],
            todo |-> [t EXCEPT !.version = row.version]]
  ELSE [err |-> "ErrEditConflict", store |-> store, todo |-> t]

\* Update with SET ..., version = version + 2.
TodoModelUpdate_Bump2(store, t) ==
  IF t.id \in DOMAIN store /\ store[t.id].version = t.version
  THEN LET row == [store[t.id] EXCEPT !.text = t.text,
                                      !.completed = t.completed,
                                      !.version = @ + 2]
       IN  [err |-> "nil",
            store |-> [store EXCEPT ![t.id] = row],
            todo |-> [t EXCEPT !.version = row.version]]
  ELSE [err |-> "ErrEditConflict", store |-> store, todo |-> t]

\* Update with WHERE id = $6 alone.
TodoModelUpdate_LastWriteWins(store, t) ==
  IF t.id \in DOMAIN store
  THEN LET row == [store[t.id] EXCEPT !.text = t.text,
                                      !.completed = t.completed,
                                      !.version = @ + 1]
       IN  [err |-> "nil",
            store |-> [store EXCEPT ![t.id] = row],
            todo |-> [t EXCEPT !.version = row.version]]
  ELSE [err |-> "ErrEditConflict", store |-> store, todo |-> t]

\* TodoModel.Update: UPDATE ... SET ..., version = version + 1
\* WHERE id = $6 AND version = $7 RETURNING version.
TodoModelUpdate(store, t) ==
  IF t.id \in DOMAIN store /\ store[t.id].version = t.version
  THEN LET row == [store[t.id] EXCEPT !.text = t.text,
                                      !.completed = t.completed,
                                      !.version = @ + 1]
       IN  [err |-> "nil",
            store |-> [store EXCEPT ![t.id] = row],
            todo |-> [t EXCEPT !.version = row.version]]
  ELSE [err |-> "ErrEditConflict", store |-> store, todo |-> t]

\* TodoModel.Delete: DELETE FROM todos WHERE id = $1.
TodoModelDelete(store, id) ==
  IF id < 1 THEN [err |-> "ErrRecordNotFound", store |-> store]
  ELSE IF id \in DOMAIN store
       THEN [err |-> "nil",
             store |-> [i \in DOMAIN store \ {id} |-> store[i]]]
       ELSE [err |-> "ErrRecordNotFound", store |-> store]

\* ------------------------------------------------------------- requests

\* The plaintext of a request that carries no token.
NoToken == [len |-> 0, rand |-> 0]

\* The Authorization header as authenticate sees it: n is the number of
\* parts strings.Split(header, " ") returns (0 stands for the absent or
\* empty header), scheme is the first part and token the second.
NoHeader == [n |-> 0, scheme |-> "", token |-> NoToken]

\* The query string of a request that carries none: the value of each
\* parameter listTodos reads, "" when the parameter is absent.
NoQuery ==
  [page |-> "", page_size |-> "", sort |-> "", includeArchived |-> "",
   onlyArchived |-> "", done |-> "", undone |-> ""]

\* The decoded body of a PATCH with every pointer nil.
NoInput == [text |-> {}, completed |-> {}, archived |-> {}]

\* A slot that has served nothing yet.
Idle ==
  [kind |-> "idle", pc |-> "done", user |-> 0, id |-> 0, todo |-> ZeroTodo,
   input |-> NoInput, query |-> NoQuery,
   header |-> NoHeader, lookups |-> 0,
   status |-> "none", body |-> {}, readVersion |-> 0, clientVersion |-> 0,
   writes |-> 0, ids |-> <<>>, i |-> 0, processed |-> <<>>, outcome |-> <<>>,
   success |-> TRUE, token |-> [len |-> 0, rand |-> 0], field |-> "",
   account |-> [id |-> 0, activated |-> FALSE, version |-> 0],
   afterRedeemed |-> FALSE, afterVoided |-> FALSE]

\* A new request is served by the first free slot.
CanStart(p) ==
  /\ req[p] = Idle
  /\ \A q \in Procs : q < p => req[q] # Idle
  /\ nreq < MaxRequests

Start(kind, u) == [Idle EXCEPT !.kind = kind, !.user = u]

Respond(r, status, body) ==
  [r EXCEPT !.pc = "done", !.status = status, !.body = body]

\* The request r is answered: its slot is free again.
Answer(p, r, status, body) ==
  /\ req' = [req EXCEPT ![p] = Idle]
  /\ resp' = Respond(r, status, body)

\* ------------------------------------------------------- todo handlers

\* createTodo: POST /v1/todos.  The owner is the request's identity.
createTodo(p, u, text, completed, archived) ==
  /\ CanStart(p)
  /\ LET t == [ZeroTodo EXCEPT !.text = text, !.user_id = u,
                               !.completed = completed,
                               !.archived = archived]
         r == [Start("createTodo", u) EXCEPT !.todo = t]
     IN  IF ~ValidateTodo(t)
         THEN /\ Answer(p, r, "failedValidation", {})
              /\ UNCHANGED <<todos, nextTodoId>>
         ELSE LET ins == TodoModelInsert(todos, nextTodoId, t)
              IN  /\ nextTodoId <= MaxTodos
                  /\ todos' = ins.store
                  /\ nextTodoId' = nextTodoId + 1
                  /\ Answer(p, [r EXCEPT !.id = ins.todo.id, !.writes = 1],
                            "created", {ins.todo})
  /\ nreq' = nreq + 1
  /\ UNCHANGED updated
  /\ UNCHANGED userVars

\* getTodo: GET /v1/todos/:id.
getTodo(p, u, s) ==
  /\ CanStart(p)
  /\ LET id == readIdParam(s)
         r  == [Start("getTodo", u) EXCEPT !.id = id.val]
         g  == GetTodoIfOwned(todos, id.val, u)
     IN  IF id.err \/ g.err = "ErrRecordNotFound"
         THEN Answer(p, r, "notFound", {})
         ELSE Answer(p, r, "ok", {g.todo})
  /\ nreq' = nreq + 1
  /\ UNCHANGED <<todos, nextTodoId, updated>>
  /\ UNCHANGED userVars

\* strconv.Atoi on the values of the model.
Atoi(x) ==
  CASE x = "0"   -> [err |-> FALSE, val |-> 0]
    [] x = "1"   -> [err |-> FALSE, val |-> 1]
    [] x = "2"   -> [err |-> FALSE, val |-> 2]
    [] x = "25"  -> [err |-> FALSE, val |-> 25]
    [] x = "50"  -> [err |-> FALSE, val |-> 50]
    [] x = "101" -> [err |-> FALSE, val |-> 101]
    [] x = "4000" -> [err |-> FALSE, val |-> 4000]
    [] x = "5555" -> [err |-> FALSE, val |-> 5555]
    [] OTHER     -> [err |-> TRUE,  val |-> 0]

\* strconv.ParseBool on the values of the model.
ParseBool(x) ==
  CASE x \in {"1", "t", "T", "TRUE", "true", "True"} ->
         [err |-> FALSE, val |-> TRUE]
    [] x \in {"0", "f", "F", "FALSE", "false", "False"} ->
         [err |-> FALSE, val |-> FALSE]
    [] OTHER -> [err |-> TRUE, val |-> FALSE]

\* readQueryString: the default for an empty value.
readQueryString(x, defaultValue) == IF x = "" THEN defaultValue ELSE x

\* readQueryInt: the default for an empty value; the default and an error
\* in the validator for a value that is no integer.
readQueryInt(x, defaultValue) ==
  IF x = "" THEN [err |-> FALSE, val |-> defaultValue]
  ELSE IF Atoi(x).err THEN [err |-> TRUE, val |-> defaultValue]
  ELSE Atoi(x)

\* readQueryBool: the default for an empty value; the default and an
\* error in the validator for a value that is no boolean.
readQueryBool(x, defaultValue) ==
  IF x = "" THEN [err |-> FALSE, val |-> defaultValue]
  ELSE IF ParseBool(x).err THEN [err |-> TRUE, val |-> defaultValue]
  ELSE ParseBool(x)

\* input.Filters as listTodos fills it from the query string q; Valid
\* is v.Valid() after the parameters have been read.
ReadFilters(q) ==
  LET page == readQueryInt(q.page, 1)
      size == readQueryInt(q.page_size, 20)
      ia   == readQueryBool(q.includeArchived, FALSE)
      oa   == readQueryBool(q.onlyArchived, FALSE)
      dn   == readQueryBool(q.done, FALSE)
      un   == readQueryBool(q.undone, FALSE)
  IN  [Page |-> page.val, PageSize |-> size.val,
       Sort |-> readQueryString(q.sort, "id"),
       IncludeArchived |-> ia.val, OnlyArchived |-> oa.val,
       Done |-> dn.val, Undone |-> un.val,
       Valid |-> ~(page.err \/ size.err \/ ia.err \/ oa.err \/ dn.err
                    \/ un.err)]

\* listTodos: GET /v1/todos with the query string q.  A panic of GetAll
\* leaves the handler; lookups counts the queries sent to the store.
listTodos(p, u, q) ==
  /\ CanStart(p)
  /\ LET r == [Start("listTodos", u) EXCEPT !.query = q]
         f == ReadFilters(q)
         g == TodoModelGetAll(todos, u, f)
         rr == [r EXCEPT !.lookups = IF g.queried THEN 1 ELSE 0]
     IN  IF ~f.Valid THEN Answer(p, r, "failedValidation", {})
         ELSE IF g.panics THEN Answer(p, rr, "panic", {})
         ELSE IF g.err # "nil" THEN Answer(p, rr, "serverError", {})
         ELSE Answer(p, rr, "ok", g.todos)
  /\ nreq' = nreq + 1
  /\ UNCHANGED <<todos, nextTodoId, updated>>
  /\ UNCHANGED userVars

\* A pointer field of a decoded body is {} when nil and {v} when it points
\* to v.
Deref(ptr) == CHOOSE v \in ptr : TRUE

\* The fields of the stored record that a PATCH body overwrites: a nil
\* pointer (absent or null field) leaves the field as it was read.
MergeInput(t, in) ==
  [t EXCEPT !.text = IF in.text = {} THEN @ ELSE Deref(in.text),
            !.completed = IF in.completed = {} THEN @ ELSE Deref(in.completed),
            !.archived = IF in.archived = {} THEN @ ELSE Deref(in.archived)]

\* The bodies a PATCH can carry.
PatchInputs ==
  [text : {{}} \cup {{x} : x \in Texts}, completed : {{}, {TRUE}},
   archived : {{}, {TRUE}}]

\* The versions of a todo that responses have shown to its owner's clients:
\* createTodo answers with version 1 and every successful updateTodo with
\* the version it stored, so each version up to the stored one was shown.
ShownVersions(store, id, u) ==
  IF id \in DOMAIN store /\ store[id].user_id = u
  THEN 1..store[id].version ELSE {0}

\* updateTodo up to the call of Todos.Update: read the id, fetch the todo
\* if owned, decode the body, merge and validate.  cv is the version the
\* sending client last saw in a response (0 when it saw none).
updateTodoRead(p, u, s, in, cv) ==
  /\ CanStart(p)
  /\ LET id == readIdParam(s)
         r  == [Start("updateTodo", u) EXCEPT !.id = id.val,
                                              !.clientVersion = cv]
         g  == GetTodoIfOwned(todos, id.val, u)
     IN  /\ cv \in ShownVersions(todos, id.val, u)
         /\ IF id.err \/ g.err = "ErrRecordNotFound"
            THEN Answer(p, r, "notFound", {})
            ELSE LET t == MergeInput(g.todo, in)
                     rr == [r EXCEPT !.readVersion = g.todo.version,
                                     !.todo = t, !.input = in]
                 IN  IF ~ValidateTodo(t)
                     THEN Answer(p, rr, "failedValidation", {})
                     ELSE /\ req' = [req EXCEPT ![p] = [rr EXCEPT !.pc = "Update"]]
                          /\ UNCHANGED resp
  /\ nreq' = nreq + 1
  /\ UNCHANGED <<todos, nextTodoId, updated>>
  /\ UNCHANGED userVars

\* updateTodo from the call of Todos.Update to the response.
updateTodoWrite(p) ==
  /\ req[p].kind = "updateTodo" /\ req[p].pc = "Update"
  /\ LET r == req[p]
         up == TodoModelUpdate(todos, r.todo)
     IN  IF up.err = "ErrEditConflict"
         THEN /\ Answer(p, r, "editConflict", {})
              /\ UNCHANGED <<todos, updated>>
         ELSE /\ todos' = up.store
              /\ Answer(p, [r EXCEPT !.todo = up.todo, !.writes = 1],
                        "ok", {up.todo})
              /\ updated' = [updated EXCEPT ![r.id] = Append(@, r.readVersion)]
  /\ UNCHANGED <<nextTodoId, nreq>>
  /\ UNCHANGED userVars

\* deleteTodo: DELETE /v1/todos/:id.
deleteTodo(p, u, s) ==
  /\ CanStart(p)
  /\ LET id == readIdParam(s)
         r  == [Start("deleteTodo", u) EXCEPT !.id = id.val]
         d  == TodoModelDelete(todos, id.val)
     IN  IF id.err \/ d.err = "ErrRecordNotFound"
         THEN /\ Answer(p, r, "notFound", {})
              /\ UNCHANGED todos
         ELSE /\ Answer(p, [r EXCEPT !.writes = 1], "ok", {})
              /\ todos' = d.store
  /\ nreq' = nreq + 1
  /\ UNCHANGED <<nextTodoId, updated>>
  /\ UNCHANGED userVars

\* parseID: the id string of a batch item must parse to a positive integer.
parseID(s) ==
  LET r == ParseInt(s)
  IN  IF r.err \/ r.val < 1 THEN [err |-> "invalid ID", val |-> 0]
      ELSE [err |-> "nil", val |-> r.val]

\* The bodies a batch delete can carry: id lists of up to MaxBatch strings.
BatchInputs == UNION {[1..n -> IdStrings] : n \in 0..MaxBatch}

\* The loop leaving at the first item that fails (break for continue).
BatchIteration_Break(r, store) ==
  LET i   == r.i + 1
      id  == parseID(r.ids[i])
      d   == TodoModelDelete(store, id.val)
      err == IF id.err # "nil" THEN id.err ELSE d.err
  IN  [req |-> IF err # "nil"
               THEN [r EXCEPT !.i = Len(r.ids), !.success = FALSE,
                              !.outcome = [k \in DOMAIN r.outcome \cup {i} |->
                                  IF k = i THEN err ELSE r.outcome[k]]]
               ELSE [r EXCEPT !.i = i, !.writes = @ + 1,
                              !.processed = Append(@, i)],
       store |-> IF id.err # "nil" THEN store ELSE d.store]

\* One iteration of the loop of deleteTodosBatch, for the item r.i + 1 of
\* the list.
BatchIteration(r, store) ==
  LET i   == r.i + 1
      id  == parseID(r.ids[i])
      d   == TodoModelDelete(store, id.val)
      err == IF id.err # "nil" THEN id.err ELSE d.err
  IN  [req |-> IF err # "nil"
               THEN [r EXCEPT !.i = i, !.success = FALSE,
                              !.outcome = [k \in DOMAIN r.outcome \cup {i} |->
                                  IF k = i THEN err ELSE r.outcome[k]]]
               ELSE [r EXCEPT !.i = i, !.writes = @ + 1,
                              !.processed = Append(@, i)],
       store |-> IF id.err # "nil" THEN store ELSE d.store]

\* After an iteration: the next item, or the response when the list is done.
BatchContinue(p, r) ==
  IF r.i < Len(r.ids)
  THEN /\ req' = [req EXCEPT ![p] = [r EXCEPT !.pc = "Delete"]]
       /\ UNCHANGED resp
  ELSE Answer(p, r, IF r.success THEN "ok" ELSE "badRequest", {})

\* deleteTodosBatch from the decoding of the body to the first item's
\* statement.
deleteTodosBatchStart(p, u, ids) ==
  /\ CanStart(p)
  /\ LET r == [Start("deleteTodosBatch", u) EXCEPT !.ids = ids]
     IN  IF Len(ids) = 0
         THEN /\ Answer(p, [r EXCEPT !.success = FALSE], "badRequest", {})
              /\ UNCHANGED todos
         ELSE LET it == BatchIteration(r, todos)
              IN  /\ BatchContinue(p, it.req)
                  /\ todos' = it.store
  /\ nreq' = nreq + 1
  /\ UNCHANGED <<nextTodoId, updated>>
  /\ UNCHANGED userVars

\* deleteTodosBatch: the next item of the list.
deleteTodosBatchNext(p) ==
  /\ req[p].kind = "deleteTodosBatch" /\ req[p].pc = "Delete"
  /\ LET it == BatchIteration(req[p], todos)
     IN  /\ BatchContinue(p, it.req)
         /\ todos' = it.store
  /\ UNCHANGED <<nextTodoId, nreq, updated>>
  /\ UNCHANGED userVars

\* ------------------------------------------------------- user lifecycle

\* The email addresses a body can carry.
Emails == {"x@mail", "y@mail"}

\* Token scopes and permission codes.
Activation == "activation"
Authentication == "authentication"
TodosRead == "todos:read"
TodosWrite == "todos:write"

\* The token strings a client can send: the 26 character strings the
\* generator can return (rand tells them apart) and a string of another
\* length.
TokenStrings == [len : {26}, rand : 1..MaxTokens] \cup {[len |-> 5, rand |-> 0]}

\* ValidateTokenPlaintext: the token must be 26 bytes long.
ValidateTokenPlaintext(t) == t.len = 26

\* The SHA-256 digest of a plaintext, the only form in which it is stored.
Hash(t) == <<"sha256", t.len, t.rand>>

\* Tokens.New: generate a plaintext and insert its row.
TokenModelNew(n, userID, scope) ==
  [hash |-> Hash([len |-> 26, rand |-> n]), user_id |-> userID,
   scope |-> scope, expired |-> FALSE]

\* Users.Insert: the id comes from the sequence, version from its default.
UserModelInsert(store, seq, email) ==
  [i \in DOMAIN store \cup {seq} |->
     IF i = seq
     THEN [id |-> seq, email |-> email, activated |-> FALSE, version |-> 1]
     ELSE store[i]]

\* Users.GetByEmail.
UserModelGetByEmail(store, email) ==
  {store[i] : i \in {j \in DOMAIN store : store[j].email = email}}

\* Users.GetForToken: the user of the unexpired token of that scope whose
\* stored digest is the digest of the plaintext.
UserModelGetForToken(ustore, tstore, scope, plaintext) ==
  LET rows == {t \in tstore : /\ t.hash = Hash(plaintext)
                              /\ t.scope = scope
                              /\ ~t.expired
                              /\ t.user_id \in DOMAIN ustore}
  IN  IF rows = {} THEN [err |-> "ErrRecordNotFound", user |-> Idle.account]
      ELSE LET u == ustore[(CHOOSE t \in rows : TRUE).user_id]
           IN  [err |-> "nil",
                user |-> [id |-> u.id, activated |-> u.activated,
                          version |-> u.version]]

\* Users.Update: UPDATE users SET ..., version = version + 1
\* WHERE id = $ AND version = $.
UserModelUpdate(store, u) ==
  IF u.id \in DOMAIN store /\ store[u.id].version = u.version
  THEN [err |-> "nil",
        store |-> [store EXCEPT ![u.id] =
                     [@ EXCEPT !.activated = u.activated, !.version = @ + 1]],
        user |-> [u EXCEPT !.version = @ + 1]]
  ELSE [err |-> "ErrEditConflict", store |-> store, user |-> u]

\* Tokens.DeleteAllForUser: DELETE FROM tokens WHERE scope = $ AND user_id = $.
TokenModelDeleteAllForUser(tstore, scope, userID) ==
  {t \in tstore : ~(t.scope = scope /\ t.user_id = userID)}

\* Permissions.AddForUser.
PermissionModelAddForUser(pstore, userID, code) == pstore \cup {<<userID, code>>}

\* A new user lifecycle request is served by the first free slot.
CanStartUser(p) ==
  /\ req[p] = Idle
  /\ \A q \in Procs : q < p => req[q] # Idle
  /\ nreq < MaxUserRequests

\* The request in slot p goes on to its statement pc.
Continue(p, r, pc) ==
  /\ req' = [req EXCEPT ![p] = [r EXCEPT !.pc = pc]]
  /\ UNCHANGED resp

ghostVars == <<redeemed, voided, accepted>>

\* registerUser up to Users.Insert.  valid tells whether the body passes
\* ValidateUser; fail tells whether the statement ends in an error that
\* the handler does not expect (timeout, lost connection).
registerUserInsert(p, email, valid, fail) ==
  /\ CanStartUser(p)
  /\ LET r == Start("registerUser", 0)
     IN  IF ~valid
         THEN /\ Answer(p, [r EXCEPT !.field = "password"], "failedValidation", {})
              /\ UNCHANGED <<users, nextUserId>>
         ELSE IF fail
         THEN /\ Answer(p, r, "serverError", {})
              /\ UNCHANGED <<users, nextUserId>>
         ELSE IF UserModelGetByEmail(users, email) # {}
         THEN /\ Answer(p, [r EXCEPT !.field = "email"], "failedValidation", {})
              /\ UNCHANGED <<users, nextUserId>>
         ELSE /\ nextUserId <= MaxUsers
              /\ users' = UserModelInsert(users, nextUserId, email)
              /\ nextUserId' = nextUserId + 1
              /\ Continue(p, [r EXCEPT !.user = nextUserId,
                                       !.account = [id |-> nextUserId,
                                                    activated |-> FALSE,
                                                    version |-> 1]],
                          "TokensNew")
  /\ nreq' = nreq + 1
  /\ UNCHANGED <<tokens, nextToken, permissions, issued, ghostVars, todoVars>>

\* registerUser: Tokens.New for the activation token.
registerUserToken(p, fail) ==
  /\ req[p].kind = "registerUser" /\ req[p].pc = "TokensNew"
  /\ LET r == req[p]
     IN  IF fail
         THEN /\ Answer(p, r, "serverError", {})
              /\ UNCHANGED <<tokens, nextToken, issued>>
         ELSE LET t == TokenModelNew(nextToken, r.user, Activation)
              IN  /\ nextToken <= MaxTokens
                  /\ tokens' = tokens \cup {t}
                  /\ issued' = issued \cup {[rand |-> nextToken, user_id |-> r.user,
                                             scope |-> Activation]}
                  /\ nextToken' = nextToken + 1
                  /\ Continue(p, [r EXCEPT !.token = [len |-> 26, rand |-> nextToken]],
                              "AddForUser")
  /\ UNCHANGED <<users, nextUserId, permissions, nreq, ghostVars, todoVars>>

\* registerUser from Permissions.AddForUser to the response; the welcome
\* email is left to a background goroutine.
registerUserPermission(p, fail) ==
  /\ req[p].kind = "registerUser" /\ req[p].pc = "AddForUser"
  /\ LET r == req[p]
     IN  IF fail
         THEN /\ Answer(p, r, "serverError", {})
              /\ UNCHANGED permissions
         ELSE /\ permissions' = PermissionModelAddForUser(permissions, r.user, TodosRead)
              /\ Answer(p, r, "accepted", {})
  /\ UNCHANGED <<users, nextUserId, tokens, nextToken, issued, nreq,
                 ghostVars, todoVars>>

\* activateUser up to Users.GetForToken.
activateUserLookup(p, tok, fail) ==
  /\ CanStartUser(p)
  /\ LET r == [Start("activateUser", 0) EXCEPT
                 !.token = tok,
                 !.afterRedeemed = tok.rand \in redeemed,
                 !.afterVoided = tok.rand \in voided]
         g == UserModelGetForToken(users, tokens, Activation, tok)
     IN  IF ~ValidateTokenPlaintext(tok)
         THEN Answer(p, [r EXCEPT !.field = "token"], "failedValidation", {})
         ELSE IF fail
         THEN Answer(p, r, "serverError", {})
         ELSE IF g.err = "ErrRecordNotFound"
         THEN Answer(p, [r EXCEPT !.field = "token"], "failedValidation", {})
         ELSE Continue(p, [r EXCEPT !.user = g.user.id, !.account = g.user],
                       "Update")
  /\ nreq' = nreq + 1
  /\ UNCHANGED <<userVars, todoVars>>

\* activateUser: set Activated and call Users.Update.
activateUserUpdate(p, fail) ==
  /\ req[p].kind = "activateUser" /\ req[p].pc = "Update"
  /\ LET r  == req[p]
         up == UserModelUpdate(users, [r.account EXCEPT !.activated = TRUE])
     IN  IF fail
         THEN /\ Answer(p, r, "serverError", {})
              /\ UNCHANGED users
         ELSE IF up.err = "ErrEditConflict"
         THEN /\ Answer(p, r, "editConflict", {})
              /\ UNCHANGED users
         ELSE /\ users' = up.store
              /\ Continue(p, [r EXCEPT !.account = up.user, !.writes = 1],
                          "DeleteAllForUser")
  /\ UNCHANGED <<nextUserId, tokens, nextToken, permissions, issued, nreq,
                 ghostVars, todoVars>>

\* activateUser going on to the permission without deleting the tokens.
activateUserDeleteTokens_Skip(p, fail) ==
  /\ req[p].kind = "activateUser" /\ req[p].pc = "DeleteAllForUser"
  /\ Continue(p, req[p], "AddForUser")
  /\ UNCHANGED <<users, nextUserId, tokens, nextToken, permissions, issued,
                 nreq, ghostVars, todoVars>>

\* activateUser: delete all activation tokens for the user.
activateUserDeleteTokens(p, fail) ==
  /\ req[p].kind = "activateUser" /\ req[p].pc = "DeleteAllForUser"
  /\ LET r == req[p]
     IN  IF fail
         THEN /\ Answer(p, r, "serverError", {})
              /\ UNCHANGED tokens
         ELSE /\ tokens' = TokenModelDeleteAllForUser(tokens, Activation, r.user)
              /\ Continue(p, r, "AddForUser")
  /\ UNCHANGED <<users, nextUserId, nextToken, permissions, issued, nreq,
                 ghostVars, todoVars>>

\* activateUser from Permissions.AddForUser to the response.
activateUserPermission(p, fail) ==
  /\ req[p].kind = "activateUser" /\ req[p].pc = "AddForUser"
  /\ LET r == req[p]
     IN  IF fail
         THEN /\ Answer(p, r, "serverError", {})
              /\ UNCHANGED <<permissions, ghostVars>>
         ELSE /\ permissions' = PermissionModelAddForUser(permissions, r.user, TodosWrite)
              /\ Answer(p, r, "accepted", {})
              /\ redeemed' = redeemed \cup {r.token.rand}
              /\ voided' = voided \cup
                   {t.rand : t \in {x \in issued : /\ x.user_id = r.user
                                                   /\ x.scope = Activation}}
              /\ accepted' = [accepted EXCEPT ![r.user] = @ + 1]
  /\ UNCHANGED <<users, nextUserId, tokens, nextToken, issued, nreq, todoVars>>

\* The insertion of a token of the scope for the user, answered with status.
IssueToken(p, r, userID, scope, status) ==
  /\ nextToken <= MaxTokens
  /\ tokens' = tokens \cup {TokenModelNew(nextToken, userID, scope)}
  /\ issued' = issued \cup {[rand |-> nextToken, user_id |-> userID,
                             scope |-> scope]}
  /\ nextToken' = nextToken + 1
  /\ Answer(p, [r EXCEPT !.user = userID,
                         !.token = [len |-> 26, rand |-> nextToken]],
            status, {})

\* createActivationToken: a new activation token for the user with that
\* email; the answer is the same when there is no such user.
createActivationToken(p, email, fail) ==
  /\ CanStartUser(p)
  /\ LET r  == Start("createActivationToken", 0)
         us == UserModelGetByEmail(users, email)
     IN  IF fail
         THEN /\ Answer(p, r, "serverError", {})
              /\ UNCHANGED <<tokens, nextToken, issued>>
         ELSE IF us = {}
         THEN /\ Answer(p, r, "accepted", {})
              /\ UNCHANGED <<tokens, nextToken, issued>>
         ELSE IssueToken(p, r, (CHOOSE u \in us : TRUE).id, Activation, "accepted")
  /\ nreq' = nreq + 1
  /\ UNCHANGED <<users, nextUserId, permissions, ghostVars, todoVars>>

\* createAuthenticationToken: an authentication token for the user whose
\* email and password the body carries.
createAuthenticationToken(p, email, passwordMatches, fail) ==
  /\ CanStartUser(p)
  /\ LET r  == Start("createAuthenticationToken", 0)
         us == UserModelGetByEmail(users, email)
     IN  IF fail
         THEN /\ Answer(p, r, "serverError", {})
              /\ UNCHANGED <<tokens, nextToken, issued>>
         ELSE IF us = {} \/ ~passwordMatches
         THEN /\ Answer(p, r, "invalidCredentials", {})
              /\ UNCHANGED <<tokens, nextToken, issued>>
         ELSE IssueToken(p, r, (CHOOSE u \in us : TRUE).id, Authentication, "created")
  /\ nreq' = nreq + 1
  /\ UNCHANGED <<users, nextUserId, permissions, ghostVars, todoVars>>

\* The Authorization headers a client can send: none, Bearer or another
\* scheme with each token string, the scheme alone, and three parts.
AuthHeaders ==
  {NoHeader}
  \cup [n : {2}, scheme : {"Bearer", "Basic"}, token : TokenStrings]
  \cup {[n |-> 1, scheme |-> "Bearer", token |-> NoToken],
        [n |-> 3, scheme |-> "Bearer", token |-> [len |-> 26, rand |-> 1]]}

\* data.AnonymousUser, the identity of a request without credentials.
AnonymousUser == [id |-> 0, activated |-> FALSE, version |-> 0]

\* User.IsAnonymous.
IsAnonymous(u) == u = AnonymousUser

\* authenticate looking the token up in every scope.
authenticateResult_AnyScope(h, ustore, tstore, fail) ==
  IF h.n = 0
  THEN [status |-> "next", user |-> AnonymousUser, lookups |-> 0]
  ELSE IF h.n # 2 \/ h.scheme # "Bearer"
  THEN [status |-> "invalidAuthenticationToken", user |-> AnonymousUser,
        lookups |-> 0]
  ELSE IF ~ValidateTokenPlaintext(h.token)
  THEN [status |-> "invalidAuthenticationToken", user |-> AnonymousUser,
        lookups |-> 0]
  ELSE LET a == UserModelGetForToken(ustore, tstore, Authentication, h.token)
           b == UserModelGetForToken(ustore, tstore, Activation, h.token)
           g == IF a.err = "nil" THEN a ELSE b
       IN  IF fail
           THEN [status |-> "serverError", user |-> AnonymousUser, lookups |-> 1]
           ELSE IF g.err = "ErrRecordNotFound"
           THEN [status |-> "invalidAuthenticationToken",
                 user |-> AnonymousUser, lookups |-> 1]
           ELSE [status |-> "next", user |-> g.user, lookups |-> 1]

\* authenticate without the structural check of the token.
authenticateResult_NoValidate(h, ustore, tstore, fail) ==
  IF h.n = 0
  THEN [status |-> "next", user |-> AnonymousUser, lookups |-> 0]
  ELSE IF h.n # 2 \/ h.scheme # "Bearer"
  THEN [status |-> "invalidAuthenticationToken", user |-> AnonymousUser,
        lookups |-> 0]
  ELSE LET g == UserModelGetForToken(ustore, tstore, Authentication, h.token)
       IN  IF fail
           THEN [status |-> "serverError", user |-> AnonymousUser, lookups |-> 1]
           ELSE IF g.err = "ErrRecordNotFound"
           THEN [status |-> "invalidAuthenticationToken",
                 user |-> AnonymousUser, lookups |-> 1]
           ELSE [status |-> "next", user |-> g.user, lookups |-> 1]

\* The body of authenticate: what it answers, or the identity it puts in
\* the request context before it calls the next handler (status "next"),
\* and the number of store lookups it made.
authenticateResult(h, ustore, tstore, fail) ==
  IF h.n = 0
  THEN [status |-> "next", user |-> AnonymousUser, lookups |-> 0]
  ELSE IF h.n # 2 \/ h.scheme # "Bearer"
  THEN [status |-> "invalidAuthenticationToken", user |-> AnonymousUser,
        lookups |-> 0]
  ELSE IF ~ValidateTokenPlaintext(h.token)
  THEN [status |-> "invalidAuthenticationToken", user |-> AnonymousUser,
        lookups |-> 0]
  ELSE LET g == UserModelGetForToken(ustore, tstore, Authentication, h.token)
       IN  IF fail
           THEN [status |-> "serverError", user |-> AnonymousUser, lookups |-> 1]
           ELSE IF g.err = "ErrRecordNotFound"
           THEN [status |-> "invalidAuthenticationToken",
                 user |-> AnonymousUser, lookups |-> 1]
           ELSE [status |-> "next", user |-> g.user, lookups |-> 1]

\* A request passes authenticate: it is answered there, or the next
\* handler runs with the identity in r.account.
authenticate(p, h, fail) ==
  /\ CanStartUser(p)
  /\ LET a == authenticateResult(h, users, tokens, fail)
         r == [Start("authenticate", a.user.id) EXCEPT
                 !.header = h, !.token = h.token, !.account = a.user,
                 !.lookups = a.lookups]
     IN  Answer(p, r, a.status, {})
  /\ nreq' = nreq + 1
  /\ UNCHANGED <<userVars, todoVars>>

\* Time passes the expiry of a stored token.
TokenExpires(t) ==
  /\ t \in tokens /\ ~t.expired
  /\ tokens' = (tokens \ {t}) \cup {[t EXCEPT !.expired = TRUE]}
  /\ UNCHANGED <<users, nextUserId, nextToken, permissions, issued, nreq, req,
                 resp, ghostVars, todoVars>>

\* ------------------------------------------------------ middleware chain

\* The limiter configuration.  A bucket is counted in units of which a
\* request costs cost; it gains refill units in one minute, the unit of
\* the model's clock, and holds at most burst * cost: the rate is
\* refill / cost requests per minute.  The defaults of the flags are 2
\* requests per second and bursts of 4.
DefaultConfig == [enabled |-> TRUE, burst |-> 4, refill |-> 120, cost |-> 1]

\* The value of -cors-trusted-origins, and the Origin values a request can
\* carry ("" when it has no Origin header).
TrustedOrigins == {"https://app"}
Origins == {"", "https://app", "https://other"}

\* The client addresses realip.FromRequest can return.
IPs == {"10.0.0.1", "10.0.0.2"}

\* The chain with rateLimit outside enableCORS.
Chain_RateLimitFirst ==
  <<"logRequest", "metrics", "recoverPanic", "rateLimit", "enableCORS",
    "authenticate">>

\* alice.New(...): the middlewares around the router, outermost first.
Chain ==
  <<"logRequest", "metrics", "recoverPanic", "enableCORS", "rateLimit",
    "authenticate">>

\* The handler a middleware of the chain calls as next.
NextStage(stage) ==
  LET i == CHOOSE k \in 1..Len(Chain) : Chain[k] = stage
  IN  IF i < Len(Chain) THEN Chain[i + 1] ELSE "router"

\* The route wrappers, in the order in which their checks run:
\* requirePermission(code, next) is requireActivatedUser of its own check,
\* which is requireAuthenticatedUser of its own check.
Wrappers(wrap) ==
  CASE wrap = "requirePermission" ->
         <<"requireAuthenticatedUser", "requireActivatedUser",
           "requirePermission">>
    [] wrap = "requireActivatedUser" ->
         <<"requireAuthenticatedUser", "requireActivatedUser">>
    [] wrap = "requireAuthenticatedUser" -> <<"requireAuthenticatedUser">>
    [] OTHER -> <<>>

\* The routes a request can match: a public route, and routes wrapped by
\* each of the three wrappers.
Routes ==
  [wrap : {"public", "requireAuthenticatedUser", "requireActivatedUser"},
   code : {""}]
  \cup [wrap : {"requirePermission"}, code : {TodosRead, TodosWrite}]

\* No request: the state of the chain before the first request.
IdleConn ==
  [pc |-> "done", method |-> "", origin |-> "", acrm |-> FALSE, ip |-> "",
   identity |-> AnonymousUser, route |-> [wrap |-> "public", code |-> ""],
   wrappers |-> <<>>, entered |-> <<>>, stack |-> <<>>,
   panicking |-> FALSE, panicAt |-> "", status |-> "none",
   answeredBy |-> "", connClose |-> FALSE, allowOrigin |-> "",
   counted |-> "none", permsLoaded |-> FALSE, handlerRan |-> FALSE]

\* The stage is entered: it is on the call stack until it returns.
Enter(c, stage) ==
  [c EXCEPT !.entered = Append(@, stage), !.stack = Append(@, stage)]

\* A panic raised in the stage: the stack unwinds.
Panic(c, stage) ==
  [Enter(c, stage) EXCEPT !.pc = "unwind", !.panicking = TRUE,
                          !.panicAt = stage]

\* w.WriteHeader(status): the first call sets the status of the response.
WriteHeader(c, stage, status) ==
  IF c.status = "none"
  THEN [c EXCEPT !.status = status, !.answeredBy = stage]
  ELSE c

\* The stage answers the request itself and returns.
Reply(c, stage, status) ==
  [WriteHeader(Enter(c, stage), stage, status) EXCEPT !.pc = "unwind"]

\* The stage calls the next handler of the chain.
CallNext(c, stage) == [Enter(c, stage) EXCEPT !.pc = NextStage(stage)]

\* What a step of the chain leaves alone: the stores are only read.
chainFrame ==
  <<cfg, now, nconn, sweepVars, mutexVars, todoVars, userVars, req, resp,
    nreq>>

\* The steps of the chain outside rateLimit leave its state alone.
limiterVars == <<clients, passed>>

\* A step of the request in the chain that leaves the buckets alone.
ChainStep(c) ==
  /\ conn' = c
  /\ UNCHANGED <<limiterVars, chainFrame>>

\* The server accepts a request: the outermost middleware is called.
receive ==
  /\ conn.pc \in {"done", "escaped"}
  /\ nconn < MaxChainRequests
  /\ conn' = [IdleConn EXCEPT !.pc = Chain[1]]
  /\ nconn' = nconn + 1
  /\ UNCHANGED <<cfg, now, limiterVars, sweepVars, mutexVars, todoVars,
                 userVars, req, resp, nreq>>

\* logRequest: logs the request and calls the next handler.
logRequest(panics) ==
  /\ conn.pc = "logRequest"
  /\ ChainStep(IF panics THEN Panic(conn, "logRequest")
                         ELSE CallNext(conn, "logRequest"))

\* metrics up to its call of the next handler, which gets the wrapped
\* response writer.
metrics(panics) ==
  /\ conn.pc = "metrics"
  /\ ChainStep(IF panics THEN Panic(conn, "metrics")
                         ELSE CallNext(conn, "metrics"))

\* recoverPanic: installs the deferred recovery and calls the next handler.
recoverPanic ==
  /\ conn.pc = "recoverPanic"
  /\ ChainStep(CallNext(conn, "recoverPanic"))

\* isPreflight.
isPreflight(c) == c.method = "OPTIONS" /\ c.origin # "" /\ c.acrm

\* enableCORS passing a preflight request on after setting the headers.
enableCORS_NoReturn(method, origin, acrm, panics) ==
  /\ conn.pc = "enableCORS"
  /\ LET c == [conn EXCEPT !.method = method, !.origin = origin,
                           !.acrm = acrm]
     IN  IF panics THEN ChainStep(Panic(c, "enableCORS"))
         ELSE IF origin # "" /\ origin \in TrustedOrigins
         THEN ChainStep(CallNext([c EXCEPT !.allowOrigin = origin],
                                 "enableCORS"))
         ELSE ChainStep(CallNext(c, "enableCORS"))

\* enableCORS, for a request with that method, Origin header and with or
\* without an Access-Control-Request-Method header.
enableCORS(method, origin, acrm, panics) ==
  /\ conn.pc = "enableCORS"
  /\ LET c == [conn EXCEPT !.method = method, !.origin = origin,
                           !.acrm = acrm]
     IN  IF panics THEN ChainStep(Panic(c, "enableCORS"))
         ELSE IF origin # "" /\ origin \in TrustedOrigins
         THEN LET t == [c EXCEPT !.allowOrigin = origin]
              IN  IF isPreflight(t)
                  THEN ChainStep(Reply(t, "enableCORS", "ok"))
                  ELSE ChainStep(CallNext(t, "enableCORS"))
         ELSE ChainStep(CallNext(c, "enableCORS"))

\* rate.Limiter.Allow at time t on a bucket filled at the rate
\* config.refill up to config.burst: one token is taken if there is one.
LimiterAllow(b, t, config) ==
  LET cap  == config.burst * config.cost
      have == b.tokens + (t - b.last) * config.refill
      full == IF have > cap THEN cap ELSE have
  IN  IF full >= config.cost
      THEN [ok |-> TRUE,
            bucket |-> [b EXCEPT !.tokens = full - config.cost, !.last = t]]
      ELSE [ok |-> FALSE, bucket |-> b]

\* The critical section of rateLimit for a request of the client ip at
\* time t: the client's bucket is created on its first request, lastSeen
\* is set and the limiter is asked.
rateLimitResult(cl, ip, t, config) ==
  LET b0 == IF ip \in DOMAIN cl THEN cl[ip]
            ELSE [tokens |-> config.burst * config.cost, last |-> t,
                  lastSeen |-> t]
      a  == LimiterAllow([b0 EXCEPT !.lastSeen = t], t, config)
  IN  [ok |-> a.ok,
       clients |-> [k \in DOMAIN cl \cup {ip} |->
                      IF k = ip THEN a.bucket ELSE cl[k]]]

\* rateLimit, for a request of the client ip.
rateLimit(ip, panics) ==
  /\ conn.pc = "rateLimit"
  /\ LET c == [conn EXCEPT !.ip = ip]
         a == rateLimitResult(clients, ip, now, cfg)
     IN  IF panics
         THEN ChainStep(Panic(c, "rateLimit"))
         ELSE IF ~cfg.enabled
         THEN ChainStep(CallNext(c, "rateLimit"))
         ELSE /\ clients' = a.clients
              /\ conn' = IF a.ok THEN CallNext(c, "rateLimit")
                         ELSE Reply(c, "rateLimit", "rateLimitExceeded")
              /\ passed' = IF a.ok THEN [passed EXCEPT ![ip][now] = @ + 1]
                           ELSE passed
              /\ UNCHANGED chainFrame

\* A request arrives at rateLimit, the middlewares outside it passed.
arrive ==
  /\ conn.pc # "rateLimit"
  /\ nconn < MaxLimiterRequests
  /\ conn' = [IdleConn EXCEPT !.pc = "rateLimit"]
  /\ nconn' = nconn + 1
  /\ UNCHANGED <<cfg, now, limiterVars, sweepVars, mutexVars, todoVars,
                 userVars, req, resp, nreq>>

\* A minute passes.
Tick ==
  /\ now < MaxTime
  /\ now' = now + 1
  /\ UNCHANGED <<cfg, conn, nconn, limiterVars, sweepVars, mutexVars, todoVars,
                 userVars, req,
                 resp, nreq>>

\* time.Since(client.lastSeen) > 3*time.Minute.
IdleLimit == 3

\* The scan with time.Since(client.lastSeen) >= 3*time.Minute.
sweep_AtLeast ==
  /\ now > swept
  /\ clients' = [ip \in {k \in DOMAIN clients :
                           ~(now - clients[k].lastSeen >= IdleLimit)} |->
                   clients[ip]]
  /\ currentClients' = Cardinality(DOMAIN clients')
  /\ swept' = now
  /\ UNCHANGED <<cfg, now, conn, nconn, passed, mutexVars, todoVars, userVars,
                 req, resp, nreq>>

\* The goroutine started by rateLimit: it sleeps a minute, then deletes
\* the clients not seen for longer than the idle limit and sets the gauge
\* to the size of the map.
sweep ==
  /\ now > swept
  /\ clients' = [ip \in {k \in DOMAIN clients :
                           ~(now - clients[k].lastSeen > IdleLimit)} |->
                   clients[ip]]
  /\ currentClients' = Cardinality(DOMAIN clients')
  /\ swept' = now
  /\ UNCHANGED <<cfg, now, conn, nconn, passed, mutexVars, todoVars, userVars,
                 req, resp, nreq>>

\* authenticate as a stage of the chain, for a request with the
\* Authorization header h.
authenticateStage(h, fail, panics) ==
  /\ conn.pc = "authenticate"
  /\ LET a == authenticateResult(h, users, tokens, fail)
     IN  IF panics THEN ChainStep(Panic(conn, "authenticate"))
         ELSE IF a.status = "next"
         THEN ChainStep(CallNext([conn EXCEPT !.identity = a.user],
                                 "authenticate"))
         ELSE ChainStep(Reply(conn, "authenticate", a.status))

\* The router: it answers an OPTIONS request itself, and calls the
\* handler registered for the route of any other request.
router(route, panics) ==
  /\ conn.pc = "router"
  /\ LET w == Wrappers(route.wrap)
         c == [conn EXCEPT !.route = route, !.wrappers = w]
     IN  IF panics THEN ChainStep(Panic(c, "router"))
         ELSE IF conn.method = "OPTIONS"
         THEN ChainStep(Reply(conn, "router", "ok"))
         ELSE ChainStep([Enter(c, "router") EXCEPT
                           !.pc = IF w = <<>> THEN "handler" ELSE w[1]])

\* The handler a route wrapper calls as next.
NextWrapper(c, stage) ==
  LET i == CHOOSE k \in 1..Len(c.wrappers) : c.wrappers[k] = stage
  IN  IF i < Len(c.wrappers) THEN c.wrappers[i + 1] ELSE "handler"

\* The wrapper calls the handler it wraps.
CallWrapped(c, stage) == [Enter(c, stage) EXCEPT !.pc = NextWrapper(c, stage)]

\* requireAuthenticatedUser without the check of the anonymous identity.
requireAuthenticatedUser_NoAnonymousCheck(panics) ==
  /\ conn.pc = "requireAuthenticatedUser"
  /\ LET st == "requireAuthenticatedUser"
     IN  IF panics THEN ChainStep(Panic(conn, st))
         ELSE IF ~conn.identity.activated
         THEN ChainStep(Reply(conn, st, "activationRequired"))
         ELSE ChainStep(CallWrapped(conn, st))

\* requireAuthenticatedUser.
requireAuthenticatedUser(panics) ==
  /\ conn.pc = "requireAuthenticatedUser"
  /\ LET st == "requireAuthenticatedUser"
     IN  IF panics THEN ChainStep(Panic(conn, st))
         ELSE IF IsAnonymous(conn.identity)
         THEN ChainStep(Reply(conn, st, "authenticationRequired"))
         ELSE IF ~conn.identity.activated
         THEN ChainStep(Reply(conn, st, "activationRequired"))
         ELSE ChainStep(CallWrapped(conn, st))

\* The check requireActivatedUser hands to requireAuthenticatedUser.
requireActivatedUser(panics) ==
  /\ conn.pc = "requireActivatedUser"
  /\ LET st == "requireActivatedUser"
     IN  IF panics THEN ChainStep(Panic(conn, st))
         ELSE IF ~conn.identity.activated
         THEN ChainStep(Reply(conn, st, "activationRequired"))
         ELSE ChainStep(CallWrapped(conn, st))

\* Permissions.GetAllForUser.
PermissionModelGetAllForUser(pstore, userID) ==
  {x[2] : x \in {y \in pstore : y[1] = userID}}

\* The check requirePermission hands to requireActivatedUser.
requirePermission(fail, panics) ==
  /\ conn.pc = "requirePermission"
  /\ LET st == "requirePermission"
         c  == [conn EXCEPT !.permsLoaded = TRUE]
         ps == PermissionModelGetAllForUser(permissions, conn.identity.id)
     IN  IF panics THEN ChainStep(Panic(conn, st))
         ELSE IF fail THEN ChainStep(Reply(c, st, "serverError"))
         ELSE IF conn.route.code \notin ps
         THEN ChainStep(Reply(c, st, "notPermitted"))
         ELSE ChainStep(CallWrapped(c, st))

\* The routed handler: it answers the request, or panics before it has
\* written anything.
handler(panics) ==
  /\ conn.pc = "handler"
  /\ IF panics THEN ChainStep(Panic(conn, "handler"))
     ELSE ChainStep(Reply([conn EXCEPT !.handlerRan = TRUE], "handler", "ok"))

\* The frame on top of the call stack.
Top(c) == c.stack[Len(c.stack)]

\* The frame on top returns, or is left by the panic.
Pop(c) == [c EXCEPT !.stack = SubSeq(@, 1, Len(@) - 1)]

\* The deferred function answering 500 without the Connection header.
recoverPanicDeferred_KeepAlive ==
  /\ conn.pc = "unwind" /\ conn.stack # <<>> /\ Top(conn) = "recoverPanic"
  /\ IF conn.panicking
     THEN ChainStep(Pop(WriteHeader([conn EXCEPT !.panicking = FALSE],
                                    "recoverPanic", "serverError")))
     ELSE ChainStep(Pop(conn))

\* The function deferred by recoverPanic runs when the next handler has
\* returned or panicked.
recoverPanicDeferred ==
  /\ conn.pc = "unwind" /\ conn.stack # <<>> /\ Top(conn) = "recoverPanic"
  /\ IF conn.panicking
     THEN ChainStep(Pop(WriteHeader([conn EXCEPT !.connClose = TRUE,
                                                 !.panicking = FALSE],
                                    "recoverPanic", "serverError")))
     ELSE ChainStep(Pop(conn))

\* metrics after its call of the next handler: the response is counted
\* under the status the wrapped writer recorded, 200 when none was set.
\* A panic passing through skips it.
metricsCount ==
  /\ conn.pc = "unwind" /\ conn.stack # <<>> /\ Top(conn) = "metrics"
  /\ IF conn.panicking
     THEN ChainStep(Pop(conn))
     ELSE ChainStep(Pop([conn EXCEPT !.counted =
                           IF conn.status = "none" THEN "ok" ELSE conn.status]))

\* Any other middleware returns, or is left by the panic.
return ==
  /\ conn.pc = "unwind" /\ conn.stack # <<>>
  /\ Top(conn) \notin {"recoverPanic", "metrics"}
  /\ ChainStep(Pop(conn))

\* The outermost middleware has returned: the server sends the response
\* (200 when no status was written).  A panic that is still unwinding
\* reaches the server, which aborts the connection.
finish ==
  /\ conn.pc = "unwind" /\ conn.stack = <<>>
  /\ IF conn.panicking
     THEN ChainStep([conn EXCEPT !.pc = "escaped"])
     ELSE ChainStep([WriteHeader(conn, "server", "ok") EXCEPT !.pc = "done"])

\* ------------------------------------------------------ request context

\* The context of a request as the server hands it to the outermost
\* handler: it holds the server's own values and none of the
\* application's keys.
ServerContext == [server |-> "http"]

\* context.WithValue: a context that holds value under key and every
\* other value of ctx; ctx itself is not changed.
WithValue(ctx, key, value) ==
  [k \in DOMAIN ctx \cup {key} |-> IF k = key THEN value ELSE ctx[k]]

\* contextGet[*data.User]: panics when the context has no value under
\* the key.
contextGet(ctx, key) ==
  IF key \in DOMAIN ctx
  THEN [panics |-> FALSE, value |-> ctx[key]]
  ELSE [panics |-> TRUE, value |-> AnonymousUser]

\* contextSetUser: a copy of the request whose context holds the user.
contextSetUser(ctx, user) == WithValue(ctx, "user", user)

\* No request has reached contextualizeRequest.  r is the context of the
\* request held by contextualizeRequest's variable r, derived the one of
\* the request authenticate hands to its next handler.
NoContext ==
  [pc |-> "done", n |-> 0, header |-> NoHeader, r |-> ServerContext,
   derived |-> ServerContext, resolved |-> FALSE, seen |-> AnonymousUser,
   status |-> "none", log |-> <<>>, panicked |-> FALSE]

contextFrame ==
  <<chainVars, todoVars, userVars, req, resp, nreq, srv, loaded, bg, reg>>

\* contextualizeRequest up to next.ServeHTTP: it logs "request started"
\* and replaces its r by a copy that holds the requestContext.
contextualizeRequest(h) ==
  /\ cx.pc \in {"done", "panicked"}
  /\ cx.n < MaxChainRequests
  /\ cx' = [NoContext EXCEPT
              !.pc = "authenticate", !.n = cx.n + 1, !.header = h,
              !.r = WithValue(ServerContext, "requestContext", cx.n + 1),
              !.log = <<[msg |-> "request started", auth_status |-> ""]>>]
  /\ UNCHANGED contextFrame

\* authenticate called by contextualizeRequest: it answers the request
\* itself, or replaces its own r by a copy that holds the user and calls
\* the next handler with it.
contextAuthenticate(fail) ==
  /\ cx.pc = "authenticate"
  /\ LET a == authenticateResult(cx.header, users, tokens, fail)
     IN  cx' = IF a.status = "next"
               THEN [cx EXCEPT !.pc = "handler",
                               !.derived = contextSetUser(cx.r, a.user),
                               !.resolved = ~IsAnonymous(a.user)]
               ELSE [cx EXCEPT !.pc = "completed", !.status = a.status]
  /\ UNCHANGED contextFrame

\* The handler behind authenticate reads the user of the request it was
\* given and answers.
contextHandler ==
  /\ cx.pc = "handler"
  /\ LET g == contextGet(cx.derived, "user")
     IN  cx' = IF g.panics
               THEN [cx EXCEPT !.pc = "panicked", !.panicked = TRUE]
               ELSE [cx EXCEPT !.pc = "completed", !.status = "ok",
                               !.seen = g.value]
  /\ UNCHANGED contextFrame

\* contextualizeRequest after next.ServeHTTP has returned: it reads the
\* user from its own r and logs "request completed".
contextualizeRequestCompleted ==
  /\ cx.pc = "completed"
  /\ LET g == contextGet(cx.r, "user")
     IN  cx' = IF g.panics
               THEN [cx EXCEPT !.pc = "panicked", !.panicked = TRUE]
               ELSE [cx EXCEPT
                       !.pc = "done",
                       !.log = Append(@,
                          [msg |-> "request completed",
                           auth_status |-> IF IsAnonymous(g.value)
                                           THEN "anonymous"
                                           ELSE "authenticated"])]
  /\ UNCHANGED contextFrame

\* ----------------------------------------------------- rateLimit's mutex

Workers == 1..NumWorkers

\* The holders of mu: the cleanup goroutine, a serving goroutine, or none.
Sweeper == 0
Free == -1

\* The mutex unlocked, every serving goroutine between two requests and
\* the cleanup goroutine asleep.  locks and unlocks count the calls of
\* mu.Lock() and mu.Unlock() the goroutine made for its present request
\* (the cleanup goroutine: for its present round).
Unlocked ==
  [holder |-> Free,
   worker |-> [w \in Workers |->
                 [pc |-> "idle", ip |-> "", locks |-> 0, unlocks |-> 0]],
   sweeper |-> [pc |-> "Sleep", locks |-> 0, unlocks |-> 0]]

mutexFrame ==
  <<cfg, conn, nconn, passed, todoVars, userVars, req, resp, nreq, procVars>>

\* A request of the client ip is handed to the goroutine w and reaches
\* rateLimit: with the limiter disabled it goes on to next.ServeHTTP.
rlReceive(w, ip) ==
  /\ mu.worker[w].pc = "idle"
  /\ mu' = [mu EXCEPT !.worker[w] =
              [pc |-> IF cfg.enabled THEN "Lock" ELSE "next", ip |-> ip,
               locks |-> 0, unlocks |-> 0]]
  /\ UNCHANGED <<now, clients, sweepVars, mutexFrame>>

\* mu.Lock() in the handler.
rlLock(w) ==
  /\ mu.worker[w].pc = "Lock"
  /\ mu.holder = Free
  /\ mu' = [mu EXCEPT !.holder = w, !.worker[w].pc = "Allow",
                      !.worker[w].locks = @ + 1]
  /\ UNCHANGED <<now, clients, sweepVars, mutexFrame>>

\* The client's entry is made if there is none, lastSeen is set and the
\* limiter is asked.
rlAllow(w) ==
  /\ mu.worker[w].pc = "Allow"
  /\ LET a == rateLimitResult(clients, mu.worker[w].ip, now, cfg)
     IN  /\ clients' = a.clients
         /\ mu' = [mu EXCEPT !.worker[w].pc =
                     IF a.ok THEN "Tokens" ELSE "Unlock denied"]
  /\ UNCHANGED <<now, sweepVars, mutexFrame>>

\* mu.Unlock() of a request the limiter does not allow.
rlUnlockDenied(w) ==
  /\ mu.worker[w].pc = "Unlock denied"
  /\ mu' = [mu EXCEPT !.holder = Free, !.worker[w].pc = "rateLimitExceeded",
                      !.worker[w].unlocks = @ + 1]
  /\ UNCHANGED <<now, clients, sweepVars, mutexFrame>>

\* The headers, the counter, the log line and the 429 response are
\* written; the handler returns.
rlRateLimitExceeded(w) ==
  /\ mu.worker[w].pc = "rateLimitExceeded"
  /\ mu' = [mu EXCEPT !.worker[w].pc = "idle"]
  /\ UNCHANGED <<now, clients, sweepVars, mutexFrame>>

\* clients[ip].limiter.Tokens() and the headers of an allowed request.
rlTokens(w) ==
  /\ mu.worker[w].pc = "Tokens"
  /\ mu.worker[w].ip \in DOMAIN clients
  /\ mu' = [mu EXCEPT !.worker[w].pc = "Unlock allowed"]
  /\ UNCHANGED <<now, clients, sweepVars, mutexFrame>>

\* The handler with defer mu.Unlock(): the mutex is kept while the
\* downstream handlers run.
rlUnlockAllowed_Deferred(w) ==
  /\ mu.worker[w].pc = "Unlock allowed"
  /\ mu' = [mu EXCEPT !.worker[w].pc = "next"]
  /\ UNCHANGED <<now, clients, sweepVars, mutexFrame>>

\* mu.Unlock() of an allowed request.
rlUnlockAllowed(w) ==
  /\ mu.worker[w].pc = "Unlock allowed"
  /\ mu' = [mu EXCEPT !.holder = Free, !.worker[w].pc = "next",
                      !.worker[w].unlocks = @ + 1]
  /\ UNCHANGED <<now, clients, sweepVars, mutexFrame>>

\* next.ServeHTTP returns: the downstream handlers have answered.
rlNext(w) ==
  /\ mu.worker[w].pc = "next"
  /\ mu' = [mu EXCEPT !.worker[w].pc = "idle"]
  /\ UNCHANGED <<now, clients, sweepVars, mutexFrame>>

\* time.Sleep(time.Minute) of the cleanup goroutine returns.
swSleep ==
  /\ mu.sweeper.pc = "Sleep"
  /\ now > swept
  /\ mu' = [mu EXCEPT !.sweeper = [pc |-> "Lock", locks |-> 0, unlocks |-> 0]]
  /\ UNCHANGED <<now, clients, sweepVars, mutexFrame>>

\* mu.Lock() in the cleanup goroutine.
swLock ==
  /\ mu.sweeper.pc = "Lock"
  /\ mu.holder = Free
  /\ mu' = [mu EXCEPT !.holder = Sweeper, !.sweeper.pc = "scan",
                      !.sweeper.locks = @ + 1]
  /\ UNCHANGED <<now, clients, sweepVars, mutexFrame>>

\* The scan of the map and the update of the gauge.
swScan ==
  /\ mu.sweeper.pc = "scan"
  /\ clients' = [ip \in {k \in DOMAIN clients :
                           ~(now - clients[k].lastSeen > IdleLimit)} |->
                   clients[ip]]
  /\ currentClients' = Cardinality(DOMAIN clients')
  /\ swept' = now
  /\ mu' = [mu EXCEPT !.sweeper.pc = "Unlock"]
  /\ UNCHANGED <<now, mutexFrame>>

\* mu.Unlock() in the cleanup goroutine, which goes back to sleep.
swUnlock ==
  /\ mu.sweeper.pc = "Unlock"
  /\ mu' = [mu EXCEPT !.holder = Free, !.sweeper.pc = "Sleep",
                      !.sweeper.unlocks = @ + 1]
  /\ UNCHANGED <<now, clients, sweepVars, mutexFrame>>

\* ------------------------------------------------- background tasks

Registrations == 1..MaxRegistrations

\* app.WG at 0 and no task started.  The task n is the one the n-th
\* registerUser request starts; dones counts its calls of WG.Done().
NoTasks ==
  [wg |-> 0, crashed |-> FALSE,
   task |-> [n \in Registrations |->
               [pc |-> "none", panicked |-> FALSE, logged |-> FALSE,
                dones |-> 0]]]

\* No registerUser request has reached app.background.  n numbers the
\* requests, err is the handler's variable err, which the closure given
\* to app.background assigns to as well.
NoRegistration == [pc |-> "idle", n |-> 0, err |-> "nil", responses |-> <<>>]

tasksFrame ==
  <<chainVars, todoVars, userVars, req, resp, nreq, srv, loaded, cx>>

\* A registerUser request has inserted the user, the token and the
\* permission (err is nil) and reaches app.background.
registerUserBackground ==
  /\ reg.pc \in {"idle", "returned"}
  /\ reg.n < MaxRegistrations
  /\ reg' = [pc |-> "background", n |-> reg.n + 1, err |-> "nil",
             responses |-> <<>>]
  /\ UNCHANGED <<bg, tasksFrame>>

\* background: app.WG.Add(1).
backgroundAdd ==
  /\ reg.pc = "background"
  /\ bg' = [bg EXCEPT !.wg = @ + 1, !.task[reg.n].pc = "added"]
  /\ reg' = [reg EXCEPT !.pc = "go"]
  /\ UNCHANGED tasksFrame

\* background: the go statement; background returns to the handler.
backgroundGo ==
  /\ reg.pc = "go"
  /\ bg' = [bg EXCEPT !.task[reg.n].pc = "fn"]
  /\ reg' = [reg EXCEPT !.pc = "writeJSON"]
  /\ UNCHANGED tasksFrame

\* The closure of registerUser, run as the task n: Mailer.Send returns
\* nil or an error, which is assigned to the err of the handler that
\* started the task, or panics.  The variable of an earlier request is
\* no longer read by anyone.
taskSend(n, outcome) ==
  /\ bg.task[n].pc = "fn"
  /\ bg' = [bg EXCEPT !.task[n].pc =
              IF outcome = "panic" THEN "panicking" ELSE "returned",
                      !.task[n].panicked = (outcome = "panic"),
                      !.task[n].logged = (outcome = "error")]
  /\ reg' = IF outcome # "panic" /\ reg.n = n
            THEN [reg EXCEPT !.err = outcome] ELSE reg
  /\ UNCHANGED tasksFrame

\* The deferred function of the task with recover() left out: the panic
\* leaves the goroutine and ends the process.
taskRecover_Propagates(n) ==
  /\ bg.task[n].pc \in {"returned", "panicking"}
  /\ bg' = [bg EXCEPT !.task[n].pc = "Done",
                      !.crashed = @ \/ bg.task[n].panicked]
  /\ UNCHANGED <<reg, tasksFrame>>

\* The deferred function of the task: recover() stops a panic, which is
\* logged.
taskRecover(n) ==
  /\ bg.task[n].pc \in {"returned", "panicking"}
  /\ bg' = [bg EXCEPT !.task[n].pc = "Done",
                      !.task[n].logged = @ \/ bg.task[n].panicked]
  /\ UNCHANGED <<reg, tasksFrame>>

\* The deferred app.WG.Done() of the task; the goroutine ends.
wgDone(n) ==
  /\ bg.task[n].pc = "Done"
  /\ bg' = [bg EXCEPT !.wg = @ - 1, !.task[n].pc = "ended",
                      !.task[n].dones = @ + 1]
  /\ UNCHANGED <<reg, tasksFrame>>

\* registerUser: err = app.writeJSON(w, 202, user): the response is
\* written and nil is assigned to err.
registerUserWriteJSON ==
  /\ reg.pc = "writeJSON"
  /\ reg' = [reg EXCEPT !.pc = "err != nil", !.err = "nil",
                        !.responses = Append(@, "accepted")]
  /\ UNCHANGED <<bg, tasksFrame>>

\* registerUser: if err != nil { serverErrorResponse }; the handler
\* returns.
registerUserReturn ==
  /\ reg.pc = "err != nil"
  /\ reg' = [reg EXCEPT !.pc = "returned",
                        !.responses = IF reg.err # "nil"
                                      THEN Append(@, "serverError") ELSE @]
  /\ UNCHANGED <<bg, tasksFrame>>

\* ------------------------------------------------------------------ serve

\* context.WithTimeout(context.Background(), 30*time.Second), in seconds.
ShutdownTimeout == 30

\* serve after it has started its goroutine and called ListenAndServe:
\* main is the position of serve, shut the position of the goroutine,
\* closed says that Shutdown has closed the listeners, inflight counts the
\* connections serving a request, tasks is the counter of app.WG, elapsed
\* the seconds since the context of Shutdown was made, result what serve
\* returned.
Listening ==
  [main |-> "ListenAndServe", shut |-> "quit", closed |-> FALSE,
   inflight |-> 0, tasks |-> 0, elapsed |-> 0, result |-> "none"]

serveFrame ==
  <<chainVars, todoVars, userVars, req, resp, nreq, loaded, bg, reg, cx>>

\* The server accepts a connection and starts to serve its request.
accept ==
  /\ srv.main = "ListenAndServe" /\ ~srv.closed
  /\ srv.inflight < MaxInflight
  /\ srv' = [srv EXCEPT !.inflight = @ + 1]
  /\ UNCHANGED serveFrame

\* The handler of a request in flight returns.
complete ==
  /\ srv.inflight > 0
  /\ srv' = [srv EXCEPT !.inflight = @ - 1]
  /\ UNCHANGED serveFrame

\* background, called by the handler of a request in flight: WG.Add(1)
\* and the task is started.
background ==
  /\ srv.inflight > 0
  /\ srv.tasks < MaxTasks
  /\ srv' = [srv EXCEPT !.tasks = @ + 1]
  /\ UNCHANGED serveFrame

\* fn of a background task returns or panics: the deferred WG.Done().
taskDone ==
  /\ srv.tasks > 0
  /\ srv' = [srv EXCEPT !.tasks = @ - 1]
  /\ UNCHANGED serveFrame

\* SIGINT or SIGTERM arrives on quit: the goroutine makes the context
\* and calls srv.Shutdown, which closes the listeners at once.
signal ==
  /\ srv.shut = "quit"
  /\ srv' = [srv EXCEPT !.shut = "Shutdown", !.closed = TRUE]
  /\ UNCHANGED serveFrame

\* ListenAndServe returns http.ErrServerClosed, serve goes on to
\* receive from shutDownErr.
listenAndServeReturns ==
  /\ srv.main = "ListenAndServe" /\ srv.closed
  /\ srv' = [srv EXCEPT !.main = "shutDownErr"]
  /\ UNCHANGED serveFrame

\* A second passes while Shutdown waits for the connections.
shutdownTick ==
  /\ srv.shut = "Shutdown"
  /\ srv.elapsed < ShutdownTimeout
  /\ srv' = [srv EXCEPT !.elapsed = @ + 1]
  /\ UNCHANGED serveFrame

\* Shutdown returns: nil once no connection serves a request, the error
\* of the context once it has expired.
shutdownReturns ==
  /\ srv.shut = "Shutdown"
  /\ \/ srv.inflight = 0 /\ srv' = [srv EXCEPT !.shut = "Wait"]
     \/ /\ srv.inflight > 0 /\ srv.elapsed = ShutdownTimeout
        /\ srv' = [srv EXCEPT !.shut = "send err"]
  /\ UNCHANGED serveFrame

\* shutDownErr <- err meets err = <-shutDownErr (the channel is
\* unbuffered): serve returns the error, the goroutine goes on to Wait.
sendErr ==
  /\ srv.shut = "send err" /\ srv.main = "shutDownErr"
  /\ srv' = [srv EXCEPT !.shut = "Wait", !.main = "returned",
                         !.result = "err"]
  /\ UNCHANGED serveFrame

\* app.WG.Wait() returns: the counter is 0.
wgWait ==
  /\ srv.shut = "Wait"
  /\ srv.tasks = 0
  /\ srv' = [srv EXCEPT !.shut = "send nil"]
  /\ UNCHANGED serveFrame

\* shutDownErr <- nil meets err = <-shutDownErr: serve returns nil.
sendNil ==
  /\ srv.shut = "send nil" /\ srv.main = "shutDownErr"
  /\ srv' = [srv EXCEPT !.shut = "exited", !.main = "returned",
                         !.result = "nil"]
  /\ UNCHANGED serveFrame

\* ------------------------------------------------------------- LoadConfig

\* The defaults given to flag.IntVar for -port and for the pool sizes.
DefaultPort == 4000
DefaultMaxConns == 25

\* The command lines of the model: each flag is absent ({}) or given
\* with a value ({v}).
Args ==
  [port : {{}, {4000}, {8080}}, dbDsn : {{}, {""}, {"flagdb"}},
   verbose : {{}, {TRUE}, {FALSE}}, dbMaxOpenConns : {{}, {25}, {50}}]

\* The environments of the model, the .env file included: each key is
\* unset ({}) or set to a string ({x}).
Envs ==
  [PORT : {{}, {"5555"}, {"x"}}, DB_DSN : {{}, {"envdb"}},
   VERBOSE : {{}, {"true"}, {"false"}}, DB_MAX_OPEN_CONNS : {{}, {"50"}}]

\* flag.Parse for one flag: the value given, or the default.
FlagValue(arg, defaultVal) == IF arg = {} THEN defaultVal ELSE Deref(arg)

\* os.Getenv: "" for a key that is not set.
Getenv(e) == IF e = {} THEN "" ELSE Deref(e)

\* loadIntFromEnvOrFlag: the target keeps its value unless it equals the
\* default; then an environment variable that converts to an integer is
\* assigned to it.
loadIntFromEnvOrFlag(target, defaultVal, e) ==
  IF target = defaultVal /\ e # {} /\ ~Atoi(Deref(e)).err
  THEN Atoi(Deref(e)).val
  ELSE target

\* loadDefaultlessStringSetting: an empty target takes the environment
\* variable.
loadDefaultlessStringSetting(target, e) ==
  IF target = "" THEN Getenv(e) ELSE target

\* LoadConfig with the command line a and the environment e.
LoadConfig(a, e) ==
  [Port |-> loadIntFromEnvOrFlag(FlagValue(a.port, DefaultPort),
                                 DefaultPort, e.PORT),
   DSN |-> loadDefaultlessStringSetting(FlagValue(a.dbDsn, ""), e.DB_DSN),
   MaxOpenConns |->
     loadIntFromEnvOrFlag(FlagValue(a.dbMaxOpenConns, DefaultMaxConns),
                          DefaultMaxConns, e.DB_MAX_OPEN_CONNS),
   Verbose |-> [isSet |-> a.verbose # {},
                value |-> IF a.verbose # {} THEN Deref(a.verbose)
                          ELSE Getenv(e.VERBOSE) = "true"]]

\* The process before LoadConfig has run.
NotLoaded ==
  [pc |-> "start",
   args |-> [port |-> {}, dbDsn |-> {}, verbose |-> {}, dbMaxOpenConns |-> {}],
   env |-> [PORT |-> {}, DB_DSN |-> {}, VERBOSE |-> {},
            DB_MAX_OPEN_CONNS |-> {}],
   config |-> [Port |-> 0, DSN |-> "", MaxOpenConns |-> 0,
               Verbose |-> [isSet |-> FALSE, value |-> FALSE]]]

\* main calls LoadConfig.
loadConfig(a, e) ==
  /\ loaded.pc = "start"
  /\ loaded' = [pc |-> "loaded", args |-> a, env |-> e,
                config |-> LoadConfig(a, e)]
  /\ UNCHANGED <<chainVars, todoVars, userVars, req, resp, nreq, srv, bg, reg,
                 cx>>

\* The process-level state before main has done anything.
InitProc ==
  /\ srv = Listening
  /\ loaded = NotLoaded
  /\ bg = NoTasks
  /\ reg = NoRegistration
  /\ cx = NoContext

\* ------------------------------------------------------- specification

Init ==
  /\ todos = <<>>
  /\ nextTodoId = 1
  /\ req = [p \in Procs |-> Idle]
  /\ resp = Idle
  /\ nreq = 0
  /\ updated = [i \in TodoIds |-> <<>>]
  /\ users = <<>>
  /\ nextUserId = 1
  /\ tokens = {}
  /\ nextToken = 1
  /\ permissions = {}
  /\ issued = {}
  /\ redeemed = {}
  /\ voided = {}
  /\ accepted = [u \in 1..MaxUsers |-> 0]
  /\ cfg = DefaultConfig
  /\ now = 0
  /\ conn = IdleConn
  /\ nconn = 0
  /\ clients = <<>>
  /\ passed = [ip \in IPs |-> [t \in 0..MaxTime |-> 0]]
  /\ currentClients = 0
  /\ swept = 0
  /\ mu = Unlocked
  /\ InitProc

\* The single-todo handlers.
NextTodos ==
  \E p \in Procs :
    \/ \E u \in UserIds, text \in Texts, completed \in BOOLEAN,
          archived \in BOOLEAN :
         createTodo(p, u, text, completed, archived)
    \/ \E u \in UserIds, s \in IdStrings : getTodo(p, u, s)
    \/ \E u \in UserIds : listTodos(p, u, NoQuery)
    \/ \E u \in UserIds, s \in IdStrings, in \in PatchInputs,
          cv \in 0..(MaxRequests + 1) : updateTodoRead(p, u, s, in, cv)
    \/ updateTodoWrite(p)
    \/ \E u \in UserIds, s \in IdStrings : deleteTodo(p, u, s)

SpecTodos == Init /\ [][NextTodos /\ UNCHANGED <<chainVars, procVars>>]_vars

\* The handlers that delete, with createTodo to have todos to delete.
NextBatch ==
  \E p \in Procs :
    \/ \E u \in UserIds, text \in Texts : createTodo(p, u, text, FALSE, FALSE)
    \/ \E u \in UserIds, s \in IdStrings : deleteTodo(p, u, s)
    \/ \E u \in UserIds, ids \in BatchInputs : deleteTodosBatchStart(p, u, ids)
    \/ deleteTodosBatchNext(p)

SpecBatch == Init /\ [][NextBatch /\ UNCHANGED <<chainVars, procVars>>]_vars

\* The steps of the user lifecycle handlers; F holds the outcomes a store
\* statement can have besides the ones its handler expects.
UserStep(F) ==
  \/ \E p \in Procs, fail \in F :
       \/ \E email \in Emails, valid \in BOOLEAN :
            registerUserInsert(p, email, valid, fail)
       \/ registerUserToken(p, fail)
       \/ registerUserPermission(p, fail)
       \/ \E tok \in TokenStrings : activateUserLookup(p, tok, fail)
       \/ activateUserUpdate(p, fail)
       \/ activateUserDeleteTokens(p, fail)
       \/ activateUserPermission(p, fail)
       \/ \E email \in Emails : createActivationToken(p, email, fail)
       \/ \E email \in Emails, pw \in BOOLEAN :
            createAuthenticationToken(p, email, pw, fail)
  \/ \E t \in tokens : TokenExpires(t)

\* The user lifecycle with a store whose statements all complete.
NextUsers == UserStep({FALSE})

SpecUsers == Init /\ [][NextUsers /\ UNCHANGED <<chainVars, procVars>>]_vars

\* The user lifecycle with a store whose statements can fail.
NextUsersFault == UserStep(BOOLEAN)

SpecUsersFault == Init /\ [][NextUsersFault /\ UNCHANGED <<chainVars, procVars>>]_vars

\* The user lifecycle together with requests that authenticate.
NextAuth ==
  \/ UserStep({FALSE})
  \/ \E p \in Procs, h \in AuthHeaders : authenticate(p, h, FALSE)

SpecAuth == Init /\ [][NextAuth /\ UNCHANGED <<chainVars, procVars>>]_vars

\* The limiter configurations of the chain's runs: disabled, or enabled
\* with a burst that the requests of one run can use up.
ChainConfigs == [enabled : BOOLEAN, burst : {1}, refill : {1}, cost : {1}]

\* The stores a run of the chain starts with: user 1 is registered, user 2
\* is registered and activated, each holds an authentication token, and
\* user 2 holds todos:write or has not been granted it.
ChainPermissions ==
  {{<<1, TodosRead>>, <<2, TodosRead>>, <<2, TodosWrite>>},
   {<<1, TodosRead>>, <<2, TodosRead>>}}

InitChain ==
  /\ todos = <<>>
  /\ nextTodoId = 1
  /\ req = [p \in Procs |-> Idle]
  /\ resp = Idle
  /\ nreq = 0
  /\ updated = [i \in TodoIds |-> <<>>]
  /\ users = [i \in 1..2 |-> [id |-> i, email |-> IF i = 1 THEN "x@mail" ELSE "y@mail",
                               activated |-> i = 2, version |-> i]]
  /\ nextUserId = 3
  /\ tokens = {TokenModelNew(i, i, Authentication) : i \in 1..2}
  /\ nextToken = 3
  /\ permissions \in ChainPermissions
  /\ issued = {[rand |-> i, user_id |-> i, scope |-> Authentication] : i \in 1..2}
  /\ redeemed = {}
  /\ voided = {}
  /\ accepted = [u \in 1..MaxUsers |-> 0]
  /\ cfg \in ChainConfigs
  /\ now = 0
  /\ conn = IdleConn
  /\ nconn = 0
  /\ clients = <<>>
  /\ passed = [ip \in IPs |-> [t \in 0..MaxTime |-> 0]]
  /\ currentClients = 0
  /\ swept = 0
  /\ mu = Unlocked
  /\ InitProc

\* The Authorization headers of the chain's requests: none, a malformed
\* one, an unknown token and the tokens of the two users.
ChainHeaders ==
  {NoHeader, [n |-> 1, scheme |-> "Bearer", token |-> NoToken]}
  \cup [n : {2}, scheme : {"Bearer"}, token : [len : {26}, rand : 1..3]]

\* A request passing the middleware chain.
NextChain ==
  \/ receive
  \/ \E panics \in BOOLEAN : logRequest(panics)
  \/ \E panics \in BOOLEAN : metrics(panics)
  \/ recoverPanic
  \/ \E method \in {"GET", "OPTIONS"}, origin \in Origins,
        acrm \in BOOLEAN, panics \in BOOLEAN :
          enableCORS(method, origin, acrm, panics)
  \/ \E ip \in IPs, panics \in BOOLEAN : rateLimit(ip, panics)
  \/ \E h \in ChainHeaders, fail \in BOOLEAN, panics \in BOOLEAN :
        authenticateStage(h, fail, panics)
  \/ \E route \in Routes, panics \in BOOLEAN : router(route, panics)
  \/ \E panics \in BOOLEAN : requireAuthenticatedUser(panics)
  \/ \E panics \in BOOLEAN : requireActivatedUser(panics)
  \/ \E fail \in BOOLEAN, panics \in BOOLEAN : requirePermission(fail, panics)
  \/ \E panics \in BOOLEAN : handler(panics)
  \/ recoverPanicDeferred
  \/ metricsCount
  \/ return
  \/ finish

SpecChain == InitChain /\ [][NextChain /\ UNCHANGED procVars]_vars

\* The limiter configurations: disabled or enabled, a burst of 1 or 2, and
\* a rate of one request per minute or of one request per five minutes.
LimiterConfigs ==
  [enabled : BOOLEAN, burst : {1, 2}, refill : {1}, cost : {1, 5}]

InitLimiter ==
  /\ todos = <<>>
  /\ nextTodoId = 1
  /\ req = [p \in Procs |-> Idle]
  /\ resp = Idle
  /\ nreq = 0
  /\ updated = [i \in TodoIds |-> <<>>]
  /\ users = <<>>
  /\ nextUserId = 1
  /\ tokens = {}
  /\ nextToken = 1
  /\ permissions = {}
  /\ issued = {}
  /\ redeemed = {}
  /\ voided = {}
  /\ accepted = [u \in 1..MaxUsers |-> 0]
  /\ cfg \in LimiterConfigs
  /\ now = 0
  /\ conn = IdleConn
  /\ nconn = 0
  /\ clients = <<>>
  /\ passed = [ip \in IPs |-> [t \in 0..MaxTime |-> 0]]
  /\ currentClients = 0
  /\ swept = 0
  /\ mu = Unlocked
  /\ InitProc

\* The rate limiter: requests of the clients, the clock and the sweep.
NextLimiter ==
  \/ arrive
  \/ \E ip \in IPs : rateLimit(ip, FALSE)
  \/ Tick
  \/ sweep

SpecLimiter == InitLimiter /\ [][NextLimiter /\ UNCHANGED procVars]_vars

\* The query strings a client sends to GET /v1/todos: the two flags of a
\* mutually exclusive pair are sent together or not at all.
Queries ==
  {q \in [page : {"", "0", "2", "x"}, page_size : {"", "1", "101"},
          sort : {"", "-text", "name"}, includeArchived : {"", "true"},
          onlyArchived : {"", "true"}, done : {"", "true"},
          undone : {"", "true"}] :
     q.includeArchived = q.onlyArchived /\ q.done = q.undone}

NextList ==
  \E p \in Procs :
    \/ \E u \in UserIds : createTodo(p, u, "a", FALSE, FALSE)
    \/ \E u \in UserIds, q \in Queries : listTodos(p, u, q)

SpecList == Init /\ [][NextList /\ UNCHANGED <<chainVars, procVars>>]_vars

NextConfig == \E a \in Args, e \in Envs : loadConfig(a, e)

SpecConfig == Init /\ [][NextConfig]_vars

\* The maps rateLimit can hold at the start of minute IdleLimit + 1:
\* empty, or with a client last seen and allowed in minute 0, alone or
\* next to a client last seen in minute IdleLimit.
MutexClients ==
  LET seenAt(t) == [tokens |-> 0, last |-> t, lastSeen |-> t]
  IN  {<<>>,
       [ip \in {"10.0.0.1"} |-> seenAt(0)],
       [ip \in IPs |-> IF ip = "10.0.0.1" THEN seenAt(0)
                       ELSE seenAt(IdleLimit)]}

\* The limiter at the start of a minute, with one request per minute and
\* burst 1: the minute the server starts in, or the minute IdleLimit + 1
\* with the cleanup goroutine about to wake up.
InitMutex ==
  /\ todos = <<>>
  /\ nextTodoId = 1
  /\ req = [p \in Procs |-> Idle]
  /\ resp = Idle
  /\ nreq = 0
  /\ updated = [i \in TodoIds |-> <<>>]
  /\ users = <<>>
  /\ nextUserId = 1
  /\ tokens = {}
  /\ nextToken = 1
  /\ permissions = {}
  /\ issued = {}
  /\ redeemed = {}
  /\ voided = {}
  /\ accepted = [u \in 1..MaxUsers |-> 0]
  /\ cfg \in ChainConfigs
  /\ conn = IdleConn
  /\ nconn = 0
  /\ \/ now = 0 /\ swept = 0 /\ clients = <<>>
     \/ /\ now = IdleLimit + 1 /\ swept = IdleLimit
        /\ clients \in MutexClients
        /\ cfg.enabled \/ clients = <<>>
  /\ passed = [ip \in IPs |-> [t \in 0..MaxTime |->
                 IF ip \in DOMAIN clients /\ t = clients[ip].lastSeen
                 THEN 1 ELSE 0]]
  /\ currentClients = Cardinality(DOMAIN clients)
  /\ mu = Unlocked
  /\ InitProc

NextMutex ==
  \/ \E w \in Workers :
       \/ \E ip \in IPs : rlReceive(w, ip)
       \/ rlLock(w)
       \/ rlAllow(w)
       \/ rlUnlockDenied(w)
       \/ rlRateLimitExceeded(w)
       \/ rlTokens(w)
       \/ rlUnlockAllowed(w)
       \/ rlNext(w)
  \/ swSleep
  \/ swLock
  \/ swScan
  \/ swUnlock

\* A goroutine that holds the mutex or can run takes its next step;
\* sync.Mutex hands the lock to a goroutine that has waited (starvation
\* mode), so a goroutine that finds the mutex free again and again gets
\* it.  Nothing makes the downstream handlers return or a request
\* arrive.
FairMutex ==
  /\ \A w \in Workers :
       /\ SF_vars(rlLock(w))
       /\ WF_vars(\/ rlAllow(w) \/ rlUnlockDenied(w)
                  \/ rlRateLimitExceeded(w)
                  \/ rlTokens(w) \/ rlUnlockAllowed(w))
  /\ SF_vars(swLock)
  /\ WF_vars(swScan \/ swUnlock)

SpecMutex == InitMutex /\ [][NextMutex]_vars /\ FairMutex

NextTasks ==
  \/ registerUserBackground
  \/ backgroundAdd
  \/ backgroundGo
  \/ \E n \in Registrations, outcome \in {"nil", "error", "panic"} :
       taskSend(n, outcome)
  \/ \E n \in Registrations : taskRecover(n)
  \/ \E n \in Registrations : wgDone(n)
  \/ registerUserWriteJSON
  \/ registerUserReturn

SpecTasks == Init /\ [][NextTasks]_vars

\* A request passing contextualizeRequest and authenticate.
NextContext ==
  \/ \E h \in ChainHeaders : contextualizeRequest(h)
  \/ \E fail \in BOOLEAN : contextAuthenticate(fail)
  \/ contextHandler
  \/ contextualizeRequestCompleted

SpecContext == InitChain /\ [][NextContext]_vars

InitServe == Init

NextServe ==
  \/ accept
  \/ complete
  \/ background
  \/ taskDone
  \/ signal
  \/ listenAndServeReturns
  \/ shutdownTick
  \/ shutdownReturns
  \/ sendErr
  \/ wgWait
  \/ sendNil

\* The steps of serve and of its goroutine are taken when they can be
\* and the clock of the context runs; nothing makes a signal arrive, a
\* handler return or a background task finish.
FairServe ==
  /\ WF_vars(listenAndServeReturns)
  /\ WF_vars(shutdownTick)
  /\ WF_vars(shutdownReturns)
  /\ WF_vars(sendErr)
  /\ WF_vars(wgWait)
  /\ WF_vars(sendNil)

SpecServe == InitServe /\ [][NextServe]_vars /\ FairServe

\* ------------------------------------------------------------ properties

Range(f) == {f[k] : k \in DOMAIN f}

\* The request that took the step: the one whose slot changed and is still
\* in flight, or else the one whose response the step wrote.
Actor ==
  IF \E p \in Procs : req'[p] # req[p] /\ req'[p] # Idle
  THEN req'[CHOOSE p \in Procs : req'[p] # req[p] /\ req'[p] # Idle]
  ELSE resp'

\* The step is the call of Todos.Update of the updateTodo request in slot p.
IsUpdateWrite(p) ==
  /\ req[p].kind = "updateTodo" /\ req[p].pc = "Update"
  /\ req'[p] = Idle

\* C1: of the updateTodo requests that read one todo at the same version,
\* at most one persists its changes: when a request that read version v
\* calls Update after another request that read v was answered 200, its
\* UPDATE matches no row, it is answered with an edit conflict and the
\* table is unchanged.
C1_OneWriterPerVersion ==
  [][\A p \in Procs :
       (IsUpdateWrite(p) /\ req[p].readVersion \in Range(updated[req[p].id]))
         => /\ resp'.status = "editConflict"
            /\ todos' = todos
            /\ updated' = updated]_vars

\* A request lost the race: it is answered with an edit conflict for a todo
\* that is still stored, and another request that read the same version
\* was answered 200.
C1_Witness ==
  /\ resp.kind = "updateTodo" /\ resp.status = "editConflict"
  /\ resp.id \in DOMAIN todos
  /\ resp.readVersion \in Range(updated[resp.id])

\* C2: the stored version of a todo is the version assigned at creation (1)
\* plus the number of updateTodo requests answered 200 for it, whatever
\* other requests ran in between, and the version a successful update
\* returns is that new stored version.
C2_VersionCountsUpdates ==
  /\ \A id \in DOMAIN todos : todos[id].version = 1 + Len(updated[id])
  /\ (resp.kind = "updateTodo" /\ resp.status = "ok")
       => \A t \in resp.body : /\ t.version = 1 + Len(updated[resp.id])
                               /\ t.version = resp.readVersion + 1

\* A todo has been updated successfully at least twice.
C2_Witness ==
  \E id \in DOMAIN todos : Len(updated[id]) >= 2 /\ todos[id].version = 3

IsReadOrUpdate(r) == r.kind \in {"getTodo", "updateTodo", "listTodos"}

\* C4: a getTodo or updateTodo request for a todo owned by another user is
\* answered not-found without the todo's data and leaves the todo as it
\* was, and listTodos returns only todos owned by the requesting user.
C4_OwnerIsolation ==
  /\ [](/\ IsReadOrUpdate(resp) => \A t \in resp.body : t.user_id = resp.user
        /\ (/\ resp.kind \in {"getTodo", "updateTodo"}
            /\ resp.id \in DOMAIN todos
            /\ todos[resp.id].user_id # resp.user)
             => resp.status = "notFound" /\ resp.body = {})
  /\ [][\A id \in DOMAIN todos :
          (IsReadOrUpdate(Actor) /\ Actor.user # todos[id].user_id)
            => (id \in DOMAIN todos' /\ todos'[id] = todos[id])]_vars

\* A user asked for or tried to update a stored todo of another user and
\* was answered not-found.
C4_Witness ==
  /\ resp.kind \in {"getTodo", "updateTodo"}
  /\ resp.id \in DOMAIN todos
  /\ todos[resp.id].user_id # resp.user
  /\ resp.status = "notFound"

\* C5: deleteTodo and the items of deleteTodosBatch remove a todo only when
\* the requesting user owns it.
C5_DeleteOwnerScoped ==
  [][\A id \in DOMAIN todos :
       id \notin DOMAIN todos' => Actor.user = todos[id].user_id]_vars

\* The item r.i of the batch request r names a todo that is stored in store.
ItemStored(r, store) ==
  /\ parseID(r.ids[r.i]).err = "nil"
  /\ parseID(r.ids[r.i]).val \in DOMAIN store

\* C6: deleteTodosBatch with a non-empty list handles every id on its own,
\* in order.  An item is processed exactly when its id parses and names a
\* stored todo, and then that todo and no other is deleted; otherwise the
\* item's outcome is its reason (invalid ID or not found) and the loop goes
\* on.  The response accounts for every index once, deleted todos stay
\* deleted, and the status is 200 when every item succeeded and 400 when
\* one failed.
C6_BatchPerItem ==
  /\ [](resp.kind = "deleteTodosBatch" /\ Len(resp.ids) > 0 =>
          /\ Range(resp.processed) \cup DOMAIN resp.outcome = 1..Len(resp.ids)
          /\ Range(resp.processed) \cap DOMAIN resp.outcome = {}
          /\ \A j, k \in DOMAIN resp.processed :
               j < k => resp.processed[j] < resp.processed[k]
          /\ \A k \in DOMAIN resp.outcome :
               resp.outcome[k] =
                 IF readIdParam(resp.ids[k]).err THEN "invalid ID"
                 ELSE "ErrRecordNotFound"
          /\ \A k \in Range(resp.processed) :
               readIdParam(resp.ids[k]).val \notin DOMAIN todos
          /\ resp.success = (DOMAIN resp.outcome = {})
          /\ resp.status = IF DOMAIN resp.outcome = {} THEN "ok"
                           ELSE "badRequest")
  /\ [][(Actor.kind = "deleteTodosBatch" /\ Len(Actor.ids) > 0) =>
          /\ (Actor.i \in Range(Actor.processed)) = ItemStored(Actor, todos)
          /\ IF ItemStored(Actor, todos)
             THEN DOMAIN todos' = DOMAIN todos \ {parseID(Actor.ids[Actor.i]).val}
             ELSE DOMAIN todos' = DOMAIN todos
          /\ \A id \in DOMAIN todos' : todos'[id] = todos[id]]_vars

\* A batch was answered in which an item failed and a later item was
\* deleted.
C6_Witness ==
  /\ resp.kind = "deleteTodosBatch" /\ resp.status = "badRequest"
  /\ \E j \in DOMAIN resp.outcome, k \in Range(resp.processed) : j < k

\* C7: once an activateUser request with a plaintext has been answered 202,
\* every activateUser request that arrives later with the same plaintext
\* is answered with a validation error on the token field.
C7_RedeemedTokenRejected ==
  /\ \A p \in Procs : req[p].kind = "activateUser" => ~req[p].afterRedeemed
  /\ (resp.kind = "activateUser" /\ resp.afterRedeemed)
       => resp.status = "failedValidation" /\ resp.field = "token"

\* A well-formed token that had been redeemed was sent again and rejected.
C7_Witness ==
  /\ resp.kind = "activateUser" /\ resp.afterRedeemed
  /\ ValidateTokenPlaintext(resp.token)
  /\ resp.status = "failedValidation" /\ resp.field = "token"

\* C8: after an activateUser request has been answered 202 for a user, no
\* activation token issued to the user before that answer is accepted by
\* a request that arrives later; and the handler removes no token of
\* another user and no authentication token.
C8_AllActivationTokensVoided ==
  /\ [](/\ \A p \in Procs : req[p].kind = "activateUser" => ~req[p].afterVoided
        /\ (resp.kind = "activateUser" /\ resp.afterVoided)
             => resp.status = "failedValidation")
  /\ [][\A t \in tokens :
          (Actor.kind = "activateUser" /\ [t EXCEPT !.expired = TRUE] \notin tokens'
             /\ t \notin tokens')
            => (t.scope = Activation /\ t.user_id = Actor.user)]_vars

\* C9: for each user at most one activateUser request performs a
\* successful Users.Update (the version after registration is 1, so it is
\* at most 2) and at most one is answered 202.
C9_ActivatedOnce ==
  \A u \in DOMAIN users : users[u].version <= 2 /\ accepted[u] <= 1

\* C10: whenever no registerUser or activateUser request is in flight,
\* every stored user holds todos:read and every activated user holds
\* todos:write, also when store statements of those handlers failed.
C10_PermissionsFollowLifecycle ==
  (\A p \in Procs : req[p].kind \notin {"registerUser", "activateUser"})
    => \A u \in DOMAIN users :
         /\ <<u, TodosRead>> \in permissions
         /\ users[u].activated => <<u, TodosWrite>> \in permissions

\* ------------------------------------------------- tokens and identities

\* The store holds an unexpired token of the scope for the user whose
\* digest is the digest of the plaintext.
ValidRow(tok, scope, uid) ==
  \E t \in tokens : /\ t.hash = Hash(tok)
                    /\ t.scope = scope
                    /\ ~t.expired
                    /\ t.user_id = uid

\* The step is a request passing authenticate.
IsAuthenticate ==
  /\ nreq' = nreq + 1 /\ req' = req /\ resp'.kind = "authenticate"

\* The step is the lookup of an activateUser request.
IsActivateLookup ==
  /\ nreq' = nreq + 1 /\ Actor.kind = "activateUser"

\* C11: a token is accepted only if it is unexpired, of the scope of the
\* operation and stored by its digest.  authenticate resolves a user only
\* from a valid authentication token of that user, activateUser goes on to
\* activate only with a valid activation token of that user, and a
\* well-formed token without such a row (expired, of the other scope, or
\* never issued) gets the one answer of the unknown token: 401 invalid
\* token with no identity from authenticate, the token field error from
\* activateUser.
C11_TokenScopeAndExpiry ==
  [][ /\ IsAuthenticate =>
           LET r == resp'
           IN  /\ (r.status = "next" /\ ~IsAnonymous(r.account)) =>
                     ValidRow(r.token, Authentication, r.account.id)
               /\ ( /\ r.header.n = 2 /\ r.header.scheme = "Bearer"
                    /\ ValidateTokenPlaintext(r.token)
                    /\ ~\E uid \in DOMAIN users :
                          ValidRow(r.token, Authentication, uid) ) =>
                     /\ r.status = "invalidAuthenticationToken"
                     /\ IsAnonymous(r.account)
      /\ IsActivateLookup =>
           LET r == Actor
           IN  /\ r.pc = "Update" => ValidRow(r.token, Activation, r.user)
               /\ ( /\ ValidateTokenPlaintext(r.token)
                    /\ ~\E uid \in DOMAIN users :
                          ValidRow(r.token, Activation, uid) ) =>
                     /\ r.pc = "done"
                     /\ r.status = "failedValidation" /\ r.field = "token"
    ]_vars

\* An unexpired activation token was presented to authenticate and
\* answered 401.
C11_Witness ==
  /\ resp.kind = "authenticate"
  /\ resp.status = "invalidAuthenticationToken"
  /\ \E t \in tokens : /\ t.hash = Hash(resp.token)
                       /\ t.scope = Activation /\ ~t.expired

\* C12: the outcome of authenticate by the Authorization header and the
\* token store.  No header: the next handler runs as the anonymous
\* identity.  A header that is not "Bearer <token>": 401, next handler not
\* run.  A token of the wrong length: 401 without a store lookup.  A
\* well-formed token without a matching unexpired authentication token:
\* 401.  A matching token: the next handler runs with the token's user as
\* the identity of the request.
C12_AuthenticateOutcome ==
  [][ IsAuthenticate =>
        LET r == resp'
            h == r.header
            wellFormed == h.n = 2 /\ h.scheme = "Bearer"
            owners == {uid \in DOMAIN users :
                         ValidRow(h.token, Authentication, uid)}
        IN  /\ h.n = 0 =>
                  /\ r.status = "next" /\ IsAnonymous(r.account)
                  /\ r.lookups = 0
            /\ (h.n # 0 /\ ~wellFormed) =>
                  r.status = "invalidAuthenticationToken" /\ r.lookups = 0
            /\ (wellFormed /\ ~ValidateTokenPlaintext(h.token)) =>
                  r.status = "invalidAuthenticationToken" /\ r.lookups = 0
            /\ (wellFormed /\ ValidateTokenPlaintext(h.token) /\ owners = {}) =>
                  r.status = "invalidAuthenticationToken"
            /\ (wellFormed /\ ValidateTokenPlaintext(h.token) /\ owners # {}) =>
                  /\ r.status = "next"
                  /\ r.account.id \in owners
                  /\ r.account.activated = users[r.account.id].activated
    ]_vars

\* A request with a stored authentication token passed authenticate with
\* the token's user as its identity.
C12_Witness ==
  /\ resp.kind = "authenticate" /\ resp.status = "next"
  /\ ~IsAnonymous(resp.account)
  /\ resp.lookups = 1

\* ------------------------------------------------------ middleware chain

\* The request in the chain has entered the stage.
Reached(stage) == \E k \in DOMAIN conn.entered : conn.entered[k] = stage

\* The stage ran its checks: it was entered and did not panic.
Checked(stage) == Reached(stage) /\ conn.panicAt # stage

\* C13: a handler wrapped by requirePermission(code) runs only for an
\* identity that is not anonymous, is activated and holds code.  The
\* anonymous identity is answered 401 authentication required, never 403;
\* an authenticated user that is not activated is answered 403 activation
\* required; the permissions are loaded from the store only for an
\* authenticated, activated user.
C13_PermissionGate ==
  (Reached("router") /\ conn.route.wrap = "requirePermission") =>
    LET u == conn.identity
    IN  /\ conn.handlerRan =>
              /\ ~IsAnonymous(u) /\ u.activated
              /\ <<u.id, conn.route.code>> \in permissions
        /\ (Checked("requireAuthenticatedUser") /\ IsAnonymous(u)) =>
              conn.status = "authenticationRequired"
        /\ (Checked("requireAuthenticatedUser") /\ ~IsAnonymous(u)
              /\ ~u.activated) =>
              conn.status = "activationRequired"
        /\ conn.permsLoaded => ~IsAnonymous(u) /\ u.activated

\* A request of an activated user that holds the code ran the handler
\* behind requirePermission.
C13_Witness ==
  /\ conn.pc = "done" /\ conn.route.wrap = "requirePermission"
  /\ conn.permsLoaded /\ conn.handlerRan /\ conn.status = "ok"

\* C14: requireAuthenticatedUser rejects the anonymous identity only, with
\* 401 authentication required: whenever it answers a request itself, the
\* identity is anonymous and the answer is 401, so that behind it alone the
\* handler runs for every user, activated or not.
C14_AuthenticatedUserOnly ==
  conn.answeredBy = "requireAuthenticatedUser" =>
    /\ IsAnonymous(conn.identity)
    /\ conn.status = "authenticationRequired"

\* s is a prefix of t.
IsPrefix(s, t) == Len(s) <= Len(t) /\ SubSeq(t, 1, Len(s)) = s

\* The stages of the sequence among the five middlewares and the router.
NamedStages(seq) ==
  LET Named(x) == x \in {"recoverPanic", "metrics", "enableCORS", "rateLimit",
                         "authenticate", "router"}
  IN  SelectSeq(seq, Named)

\* The frame named outer is on the call stack below every frame named in
\* inner.
Encloses(outer, inner) ==
  \A k \in DOMAIN conn.stack :
    conn.stack[k] \in inner =>
      \E j \in 1..(k - 1) : conn.stack[j] = outer

\* C15 as stated: every request enters panic-recovery, metrics, CORS, rate
\* limiting, authentication and the router in that order, and the
\* panic-recovery wrapper encloses the metrics wrapper and every other
\* middleware.
C15_RecoveryOutermost ==
  /\ IsPrefix(NamedStages(conn.entered),
              <<"recoverPanic", "metrics", "enableCORS", "rateLimit",
                "authenticate", "router">>)
  /\ Encloses("recoverPanic",
              {"metrics", "enableCORS", "rateLimit", "authenticate", "router"})

\* C15, amended: every request enters the middlewares in the order
\* request logging, metrics, panic-recovery, CORS, rate limiting,
\* authentication and then the router.  The panic-recovery wrapper encloses
\* CORS, rate limiting, authentication, the router and the routed handler,
\* and is itself enclosed by the metrics wrapper.
C15_ChainOrder ==
  /\ IsPrefix(NamedStages(conn.entered),
              <<"metrics", "recoverPanic", "enableCORS", "rateLimit",
                "authenticate", "router">>)
  /\ (conn.entered # <<>> => conn.entered[1] = "logRequest")
  /\ Encloses("recoverPanic",
              {"enableCORS", "rateLimit", "authenticate", "router",
               "requireAuthenticatedUser", "requireActivatedUser",
               "requirePermission", "handler"})
  /\ Encloses("metrics", {"recoverPanic"})

\* A request went down the whole chain and its routed handler ran.
C15_Witness ==
  /\ conn.handlerRan /\ conn.pc = "unwind"
  /\ Len(NamedStages(conn.entered)) = 6

\* C16: a panic raised in a middleware or handler that recoverPanic
\* encloses never leaves the chain.  recoverPanic catches it, the response
\* gets Connection: close and the 500 status, the request ends with that
\* response written, and the metrics wrapper counts it.
C16_PanicRecovered ==
  (conn.panicAt # "" /\ Reached("recoverPanic")) =>
    /\ conn.pc # "escaped"
    /\ conn.pc = "done" =>
          /\ conn.connClose
          /\ conn.status = "serverError" /\ conn.answeredBy = "recoverPanic"
          /\ conn.counted = "serverError"

\* A request whose routed handler panicked has been answered.
C16_Witness ==
  /\ conn.pc = "done" /\ conn.panicAt = "handler"
  /\ conn.status = "serverError"

RECURSIVE PassedIn(_, _, _)
PassedIn(ip, t1, t2) ==
  IF t1 > t2 THEN 0 ELSE passed[ip][t1] + PassedIn(ip, t1 + 1, t2)

\* The step is rateLimit serving the request in the chain.
IsRateLimit == conn.pc = "rateLimit" /\ conn'.pc # "rateLimit"

\* C18: with the limiter enabled, rateLimit passes at most burst requests
\* of one client IP on at one instant and at most burst + rate * t in any
\* window of length t; a request it does not pass on is answered 429 and
\* the next handler is not called; a request of one IP leaves the bucket
\* of every other IP as it was.  With the limiter disabled every request
\* reaches the next handler.
C18_RateLimit ==
  /\ [](/\ cfg.enabled =>
             \A ip \in IPs, t1 \in 0..MaxTime, t2 \in 0..MaxTime :
               t1 <= t2 =>
                 PassedIn(ip, t1, t2) * cfg.cost
                   <= cfg.burst * cfg.cost + cfg.refill * (t2 - t1)
        /\ conn.status = "rateLimitExceeded" =>
             conn.pc = "unwind" /\ ~Reached("authenticate")
        /\ (~cfg.enabled /\ Reached("rateLimit")) =>
             conn.pc = NextStage("rateLimit"))
  /\ [][IsRateLimit =>
          \A ip \in DOMAIN clients :
            ip # conn'.ip => ip \in DOMAIN clients' /\ clients'[ip] = clients[ip]
       ]_vars

\* ------------------------------------------------------------------ serve

\* C19: once a SIGINT or SIGTERM has been received serve eventually
\* returns, whether or not the requests in flight and the tracked
\* background tasks ever finish.
C19_ShutdownTerminates == (srv.shut # "quit") ~> (srv.main = "returned")

\* ------------------------------------------------------ create and read

\* The step answers a createTodo request with 201.
IsCreated == resp' # resp /\ resp'.kind = "createTodo" /\ resp'.status = "created"

\* The step answers a getTodo request of the user that the response
\* before it, a 201 of createTodo, went to, for the id in that response.
IsReadBack ==
  /\ resp.kind = "createTodo" /\ resp.status = "created"
  /\ resp' # resp
  /\ resp'.kind = "getTodo" /\ resp'.user = resp.user /\ resp'.id = resp.id

\* The row of the todo just created has the request's identity as its
\* owner and version 1.
StoredForOwner ==
  /\ resp'.id \in DOMAIN todos' \ DOMAIN todos
  /\ todos'[resp'.id].user_id = resp'.user
  /\ todos'[resp'.id].version = 1

\* The getTodo response carries the todo as it was submitted.
ReadsSubmitted ==
  /\ resp'.status = "ok"
  /\ resp'.body # {}
  /\ \A t \in resp'.body :
       /\ t.id = resp.id /\ t.user_id = resp.user
       /\ t.text = resp.todo.text
       /\ t.completed = resp.todo.completed
       /\ t.archived = resp.todo.archived
       /\ t.version = 1

\* C20: a todo created by createTodo for the user U is stored with the
\* owner U and version 1, and a getTodo by U for the returned id that
\* follows with no update or delete in between yields the text, the
\* completed and the archived value that were submitted, with version 1.
C20_CreateReadRoundTrip ==
  [][(IsCreated => StoredForOwner) /\ (IsReadBack => ReadsSubmitted)]_vars

\* ------------------------------------------------------- partial update

\* The step answers an updateTodo request with 200.
IsUpdated == resp'.kind = "updateTodo" /\ resp'.status = "ok" /\ todos' # todos

\* The step answers an updateTodo request with 422.
IsUpdateRejected ==
  resp' # resp /\ resp'.kind = "updateTodo" /\ resp'.status = "failedValidation"

\* The value a field of the stored row has after a PATCH: the submitted
\* one if the body carries the field, the stored one otherwise.
Patched(ptr, stored) == IF ptr = {} THEN stored ELSE Deref(ptr)

\* The stored row changes in the fields of the body and in the version.
UpdateFrame ==
  LET i  == resp'.id
      in == resp'.input
  IN  /\ i \in DOMAIN todos /\ DOMAIN todos' = DOMAIN todos
      /\ \A j \in DOMAIN todos \ {i} : todos'[j] = todos[j]
      /\ todos'[i].id = todos[i].id
      /\ todos'[i].user_id = todos[i].user_id
      /\ todos'[i].version = todos[i].version + 1
      /\ todos'[i].text = Patched(in.text, todos[i].text)
      /\ todos'[i].completed = Patched(in.completed, todos[i].completed)
      /\ todos'[i].archived = Patched(in.archived, todos[i].archived)

\* C21: a successful updateTodo changes in the stored todo exactly the
\* fields present in the body to the submitted values and increments the
\* version, the other fields, the id and the owner keep their stored
\* values; an updateTodo whose merged record fails validation persists
\* nothing.
C21_PartialUpdateFrame ==
  [][(IsUpdated => UpdateFrame) /\ (IsUpdateRejected => todos' = todos)]_vars

\* ---------------------------------------------------------------- listing

\* The request is a listTodos whose query has both only-archived and
\* include-archived true, or both done and undone true, or a page below
\* 1, or a page_size outside 1..100.
BadFilters(r) ==
  LET f == ReadFilters(r.query)
  IN  /\ r.kind = "listTodos"
      /\ \/ f.IncludeArchived /\ f.OnlyArchived
         \/ f.Done /\ f.Undone
         \/ f.Page < 1
         \/ f.PageSize < 1 \/ f.PageSize > 100

\* C22: a listTodos request whose query supplies both only-archived and
\* include-archived as true, or both done and undone as true, or a page
\* below 1, or a page_size outside 1..100 is answered with a validation
\* error and no query is sent to the store.
C22_ListFiltersValidated ==
  BadFilters(resp) => resp.status = "failedValidation" /\ resp.lookups = 0

\* C29: no sort parameter of GET /v1/todos makes sortColumn panic, and a
\* listTodos request whose sort key is outside the safelist is answered
\* with a validation error before any query is built.
C29_UnsafeSortRejected ==
  resp.kind = "listTodos" =>
    /\ resp.status # "panic"
    /\ ReadFilters(resp.query).Sort \notin SortSafelist =>
         resp.status = "failedValidation" /\ resp.lookups = 0

\* ------------------------------------------------------------- LoadConfig

\* C23: for every setting LoadConfig loads, when both the flag and the
\* environment variable are given the Config holds the flag's value,
\* whatever the flag's value is.
C23_FlagsOverrideEnv ==
  loaded.pc = "loaded" =>
    LET a == loaded.args
        e == loaded.env
        c == loaded.config
    IN  /\ (a.port # {} /\ e.PORT # {}) => c.Port = Deref(a.port)
        /\ (a.dbDsn # {} /\ e.DB_DSN # {}) => c.DSN = Deref(a.dbDsn)
        /\ (a.verbose # {} /\ e.VERBOSE # {}) =>
             c.Verbose.value = Deref(a.verbose)
        /\ (a.dbMaxOpenConns # {} /\ e.DB_MAX_OPEN_CONNS # {}) =>
             c.MaxOpenConns = Deref(a.dbMaxOpenConns)

\* ------------------------------------------------------------------ sweep

\* The step is a scan of the cleanup goroutine.
IsSweep == swept' # swept

\* The clients seen within the idle limit.
Fresh == {ip \in DOMAIN clients : now - clients[ip].lastSeen <= IdleLimit}

\* C24: each scan of the cleanup goroutine removes exactly the clients
\* last seen more than 3 minutes ago and then sets the gauge to the size
\* of the map; no other step removes a client, and a request, allowed or
\* denied, sets the last-seen time of its client to the present.
C24_SweepRemovesIdle ==
  [][/\ IsSweep =>
         /\ DOMAIN clients' = Fresh
         /\ \A ip \in Fresh : clients'[ip] = clients[ip]
         /\ currentClients' = Cardinality(DOMAIN clients')
     /\ ~IsSweep => DOMAIN clients \subseteq DOMAIN clients'
     /\ (IsRateLimit /\ cfg.enabled) =>
         conn'.ip \in DOMAIN clients' /\ clients'[conn'.ip].lastSeen = now
    ]_vars

\* A scan has removed one client and kept the other.
C24_Witness ==
  /\ swept = now /\ swept > 0
  /\ currentClients = 1 /\ Cardinality(DOMAIN clients) = 1
  /\ \E ip \in IPs \ DOMAIN clients : PassedIn(ip, 0, MaxTime) > 0

\* -------------------------------------------------------------- the mutex

\* The goroutines about to read or write the map hold the mutex, and a
\* goroutine that sleeps, waits for the mutex, writes the 429 response or
\* runs the downstream handlers does not; a goroutine that has left its
\* critical section has unlocked as often as it has locked, once or never.
MutexDiscipline ==
  /\ \A w \in Workers :
       LET g == mu.worker[w]
       IN  /\ g.pc \in {"Allow", "Tokens", "Unlock denied", "Unlock allowed"}
               => mu.holder = w /\ g.locks = 1 /\ g.unlocks = 0
           /\ g.pc \in {"idle", "Lock", "rateLimitExceeded", "next"}
               => mu.holder # w /\ g.unlocks = g.locks /\ g.locks <= 1
  /\ mu.sweeper.pc \in {"scan", "Unlock"}
       => mu.holder = Sweeper /\ mu.sweeper.locks = 1 /\ mu.sweeper.unlocks = 0
  /\ mu.sweeper.pc \in {"Sleep", "Lock"}
       => mu.holder # Sweeper /\ mu.sweeper.unlocks = mu.sweeper.locks

\* C25: the map is read and written only by the goroutine that holds the
\* mutex; every goroutine unlocks exactly once what it locked, the
\* cleanup goroutine never sleeps with the mutex and a request holds it
\* neither while its 429 is written nor while the downstream handlers
\* run; a goroutine that waits for the mutex gets it.
C25_MutexDiscipline ==
  /\ []MutexDiscipline
  /\ [][clients' # clients =>
          mu.holder # Free /\ mu'.holder = mu.holder]_vars
  /\ \A w \in Workers :
       (mu.worker[w].pc = "Lock") ~> (mu.worker[w].pc = "Allow")

\* A request waits for the mutex while the cleanup goroutine scans, and
\* another request is with the downstream handlers.
C25_Witness ==
  /\ mu.holder = Sweeper /\ mu.sweeper.pc = "scan"
  /\ \E w \in Workers : mu.worker[w].pc = "Lock"
  /\ \E w \in Workers : mu.worker[w].pc = "next"

\* ------------------------------------------------------ background tasks

\* The tasks whose WG.Add(1) has run and whose WG.Done() has not.
Counted == {n \in Registrations : bg.task[n].pc \notin {"none", "ended"}}

\* C26: the counter of app.WG is incremented before the goroutine of a
\* task starts and decremented exactly once when its function has
\* returned or panicked; a panic of the task is recovered and logged in
\* its goroutine and never ends the process; once every started task has
\* ended the counter is 0.
C26_BackgroundCounted ==
  /\ bg.wg = Cardinality(Counted)
  /\ ~bg.crashed
  /\ \A n \in Registrations :
       /\ bg.task[n].dones = IF bg.task[n].pc = "ended" THEN 1 ELSE 0
       /\ (bg.task[n].panicked /\ bg.task[n].pc \in {"Done", "ended"})
            => bg.task[n].logged
  /\ Counted = {} => bg.wg = 0

\* A task has panicked and ended, another has returned and ended, and
\* the counter is back at 0.
C26_Witness ==
  /\ bg.wg = 0
  /\ \E n \in Registrations : bg.task[n].pc = "ended" /\ bg.task[n].panicked
  /\ \E n \in Registrations : bg.task[n].pc = "ended" /\ ~bg.task[n].panicked

\* C27: a registerUser request that has come as far as the welcome email
\* writes exactly one response, the 202, whatever Mailer.Send does and
\* whenever it does it, and does not wait for the send.
C27_OneResponse ==
  /\ Len(reg.responses) <= 1
  /\ reg.pc = "returned" => reg.responses = <<"accepted">>

\* ------------------------------------------------ update against delete

\* C28: updateTodo answers with an edit conflict only when another update
\* of the same todo succeeded between its GetTodoIfOwned and its Update
\* (the todo is still stored, at a later version than the one read); when
\* the todo was deleted in between, the answer is not-found.
C28_ConflictMeansUpdated ==
  [][\A p \in Procs :
       IsUpdateWrite(p) =>
         /\ (resp'.status = "editConflict") =>
              (/\ req[p].id \in DOMAIN todos
               /\ todos[req[p].id].version > req[p].readVersion)
         /\ (req[p].id \notin DOMAIN todos) =>
              (resp'.status = "notFound")]_vars

\* ------------------------------------------------------ request context

\* C30: contextualizeRequest around authenticate never panics, and when
\* the chain has returned it logs "request completed" with auth_status
\* "authenticated" exactly when authenticate resolved a user for the
\* request and "anonymous" otherwise.
C30_ContextCompletes ==
  /\ ~cx.panicked
  /\ (cx.pc = "done" /\ cx.n > 0) =>
       cx.log[Len(cx.log)] =
         [msg |-> "request completed",
          auth_status |-> IF cx.resolved THEN "authenticated"
                          ELSE "anonymous"]
====
